---- MODULE Spec2Model ----
(***************************************************************************)
(* A model of the StruAI JavaScript SDK (src/js/src/index.ts): the         *)
(* transport's result mapping and per-call timer (StruAI.request), the     *)
(* client's baseUrl (normalizeBaseUrl), the ingestion calls (Sheets.add,   *)
(* Drawings.analyze) with their cache probe, the polling loop of Job.wait, *)
(* the fan-out/fan-in of JobBatch.statusAll / waitAll, the DocQuery report *)
(* calls and the resource methods that take an identifier or a text.       *)
(*                                                                         *)
(* JavaScript runs each piece of an async function to its next `await`     *)
(* without interleaving, so every action below is one such piece: from a   *)
(* call (or from the settling of the awaited request or timer) up to the   *)
(* next await, return or throw.                                            *)
(*                                                                         *)
(* Text is a sequence of one-character strings, so that String(n) and      *)
(* trim() are computed and not assumed.  `undefined` and `null` are the    *)
(* sentinels Undefined and Null.  Time is what Date.now() returns, in      *)
(* ticks, and is taken to be non-decreasing.                               *)
(***************************************************************************)
EXTENDS Integers, Sequences, FiniteSets, TLC

\* ------------------------------------------------------------------ bounds
MaxJobs == 2
MaxTimeoutMs == 3
MaxPollMs == 2
MaxReqMs == 1
MaxLateMs == 1
MaxBatch == 2
MaxCount == 3
MaxRows == 2
MaxRefRows == 2
MaxCalls == 2

\* ---------------------------------------------------------------- sentinels
Undefined == "undefined"
Null == "null"

\* JavaScript truthiness of a string-or-null-or-undefined value.
Truthy(v) == v \notin {Undefined, Null, ""}

Max(a, b) == IF a >= b THEN a ELSE b

Min(a, b) == IF a <= b THEN a ELSE b

\* The set of sequences over S without repetition, of length 0..n.
InjSeqs(S, n) ==
  UNION { { s \in [1..k -> S] : \A i, j \in 1..k : i # j => s[i] # s[j] } : k \in 0..n }

\* ------------------------------------------------------------------- errors
\* An Error object: its class, its message (a sequence of text pieces), and
\* for APIError the optional statusCode and code.
MkError(type, message, statusCode, code) ==
  [type |-> type, message |-> message, statusCode |-> statusCode, code |-> code]

APIError(message, statusCode, code) == MkError("APIError", message, statusCode, code)

PlainError(text) == MkError("Error", <<text>>, 0, Undefined)

\* --------------------------------------------------------------- transport
\* What fetch() can settle with: a rejection (network failure, or the abort
\* raised by the per-call timer), or a response with a status, a status text
\* and a body.  A body is empty, not JSON, or a JSON object.
JsonBody(val) == [fmt |-> "json", val |-> val]
EmptyBody == [fmt |-> "empty", val |-> [kind |-> "none"]]
MalformedBody == [fmt |-> "malformed", val |-> [kind |-> "none"]]

FetchRejected(why) ==
  [net |-> why, status |-> 0, statusText |-> "", body |-> EmptyBody]

FetchResponse(status, statusText, body) ==
  [net |-> "ok", status |-> status, statusText |-> statusText, body |-> body]

ErrorJson(message, code) == [kind |-> "error", message |-> message, code |-> code]
OtherJson == [kind |-> "other"]

\* The failures every endpoint can produce.
FailedFetches ==
  { FetchRejected("error"), FetchRejected("abort"),
    FetchResponse(500, "Internal Server Error", JsonBody(ErrorJson("boom", "E_INTERNAL"))),
    FetchResponse(500, "Internal Server Error", JsonBody(ErrorJson(Undefined, Undefined))),
    FetchResponse(404, "Not Found", MalformedBody),
    FetchResponse(503, "Service Unavailable", JsonBody(OtherJson)) }

\* 2xx responses that carry no usable JSON.
HollowFetches ==
  { FetchResponse(204, "No Content", EmptyBody),
    FetchResponse(200, "OK", EmptyBody),
    FetchResponse(200, "OK", MalformedBody) }

ResponseOk(resp) == resp.status >= 200 /\ resp.status <= 299

Thrown(err) == [threw |-> TRUE, err |-> err, value |-> [kind |-> "none"]]
Returned(value) == [threw |-> FALSE, err |-> MkError("none", <<>>, 0, Undefined), value |-> value]

UndefinedValue == [kind |-> "undefined"]

\* Variant of ErrorMessageOf: the status text whatever the body says.
ErrorMessageOfStatusLine(resp) == resp.statusText

\* message = body?.error?.message ?? response.statusText
ErrorMessageOf(resp) ==
  IF resp.body.fmt = "json" /\ resp.body.val.kind = "error" /\ resp.body.val.message # Undefined
  THEN resp.body.val.message
  ELSE resp.statusText

\* code = body?.error?.code
ErrorCodeOf(resp) ==
  IF resp.body.fmt = "json" /\ resp.body.val.kind = "error"
  THEN resp.body.val.code
  ELSE Undefined

\* StruAI.request: what the call settles with, given what fetch settled with.
RequestResult(resp) ==
  IF resp.net = "error" THEN Thrown(MkError("TypeError", <<"fetch failed">>, 0, Undefined))
  ELSE IF resp.net = "abort" THEN Thrown(MkError("AbortError", <<"This operation was aborted">>, 0, Undefined))
  ELSE IF ~ResponseOk(resp)
    THEN Thrown(APIError(<<ErrorMessageOf(resp)>>, resp.status, ErrorCodeOf(resp)))
  ELSE IF resp.status = 204 THEN Returned(UndefinedValue)
  ELSE IF resp.body.fmt = "empty" THEN Returned(UndefinedValue)
  ELSE IF resp.body.fmt = "malformed"
    THEN Thrown(MkError("SyntaxError", <<"Unexpected token">>, 0, Undefined))
  ELSE Returned(resp.body.val)

\* Reading a property of `undefined` (cache.cached, response.jobs,
\* status.status after a 204 or an empty body) throws a TypeError.
PropertyOfUndefined ==
  MkError("TypeError", <<"Cannot read properties of undefined">>, 0, Undefined)

\* ---------------------------------------------------------------------- text
Digit(d) == <<"0", "1", "2", "3", "4", "5", "6", "7", "8", "9">>[d + 1]

\* String(n) for a non-negative integer n.
RECURSIVE DecStr(_)
DecStr(n) == IF n < 10 THEN <<Digit(n)>> ELSE DecStr(n \div 10) \o <<Digit(n % 10)>>

\* The text is one or more decimal digits.
IsDigits(t) == t # <<>> /\ \A i \in 1..Len(t) : t[i] \in {"0", "1", "2", "3", "4", "5", "6", "7", "8", "9"}

IsSpace(c) == c \in {" ", "\t", "\n"}

RECURSIVE TrimStart(_)
TrimStart(s) == IF s # <<>> /\ IsSpace(Head(s)) THEN TrimStart(Tail(s)) ELSE s

RECURSIVE TrimEnd(_)
TrimEnd(s) ==
  IF s # <<>> /\ IsSpace(s[Len(s)]) THEN TrimEnd(SubSeq(s, 1, Len(s) - 1)) ELSE s

\* String.prototype.trim
Trim(s) == TrimEnd(TrimStart(s))

\* A page option: a number, or a textual selector.
NumPage(n) == [isNumber |-> TRUE, num |-> n, text |-> <<>>]
TextPage(t) == [isNumber |-> FALSE, num |-> 0, text |-> t]

\* parsePageSelector: String(page) for a number; the trimmed text otherwise,
\* and `page is required` when nothing is left.
ParsePageThrows(page) == ~page.isNumber /\ Trim(page.text) = <<>>

\* Variant of ParsePageSelector: text passed on as it is.
ParsePageSelectorVerbatim(page) == IF page.isNumber THEN DecStr(page.num) ELSE page.text

ParsePageSelector(page) == IF page.isNumber THEN DecStr(page.num) ELSE Trim(page.text)

\* ----------------------------------------------------------------- ingestion
VARIABLES
  ipc,    \* where the ingestion call is: "idle", "probing", "submitting", "done"
  icall,  \* the call's api and its locals: file, fileHash, page
  net,    \* every request handed to fetch so far, in order, with its answer
  iout    \* how the call ended

ingestVars == <<ipc, icall, net, iout>>

VARIABLES
  jmode,   \* what was called: "idle", "wait", "waitAll", "statusAll"
  jobs,    \* the Job objects concerned (JobBatch.jobs, or the one Job), by id
  opts,    \* the options of wait / waitAll: timeoutMs, pollIntervalMs
  now,     \* Date.now()
  member,  \* per job: the state of its wait() or status() call
  pall,    \* the promise made by Promise.all
  order    \* the jobs' positions in the order in which their calls settled

jobVars == <<jmode, jobs, opts, now, member, pall, order>>

VARIABLES
  dpc,    \* where the DocQuery report call is: "idle", "querying", "done"
  dcall,  \* the call: its operation, its cleaned input, its queries still to run
  dq,     \* the rows of the queries answered so far, by query
  dout    \* how the call ended: the report returned, or the error thrown

docVars == <<dpc, dcall, dq, dout>>

VARIABLES
  rq,     \* the StruAI.request calls made so far, each with its position,
          \* its abort timer, the response it is reading and its outcome
  wire    \* per call, the number of HTTP requests handed to fetch for it

reqVars == <<rq, wire>>

VARIABLES
  mpc,    \* where the resource method call is: "idle", "requesting", "done"
  mcall,  \* the call: the method and the identifier or text it was given
  mnet,   \* every request the call handed to client.request, with its answer
  mout,   \* how the call ended
  client  \* the StruAI object: the base URL it was given and its baseUrl

resVars == <<mpc, mcall, mnet, mout, client>>

vars ==
  <<ipc, icall, net, iout, jmode, jobs, opts, now, member, pall, order,
    dpc, dcall, dq, dout, rq, wire, mpc, mcall, mnet, mout, client>>

\* Files a caller can pass: null, an empty path, readable paths, and a path
\* that cannot be read.
Files == {Null, "", "a.pdf", "b.pdf", "gone.pdf"}
ReadableFiles == {"a.pdf", "b.pdf"}

\* computeFileHash: the first 16 hex characters of the SHA-256 of the bytes.
ComputeFileHash(file) == IF file = "a.pdf" THEN "hash_of_a" ELSE "hash_of_b"

HashOptions == {Undefined, "", "hash_of_a", "hash_given"}

SheetPages ==
  { NumPage(1), NumPage(12), TextPage(<<"3">>), TextPage(<<" ", "1", ",", "2", " ">>),
    TextPage(<<"a", "l", "l">>), TextPage(<<"5", "-", "7">>), TextPage(<<" ", " ">>) }

DrawingPages == { NumPage(1), NumPage(12) }

JobIds == {"job_1", "job_2", "job_3"}

\* The job descriptors of a SheetIngestResponse.
JobLists ==
  { [i \in 1..Len(ids) |-> [job_id |-> ids[i], page |-> i]] : ids \in InjSeqs(JobIds, MaxJobs) }

CacheFetches ==
  { FetchResponse(200, "OK", JsonBody([kind |-> "cache", cached |-> c])) : c \in BOOLEAN }
    \cup { FetchResponse(200, "OK", JsonBody(OtherJson)) }
    \cup HollowFetches \cup FailedFetches

SheetSubmitFetches ==
  { FetchResponse(200, "OK", JsonBody([kind |-> "jobs", jobs |-> js])) : js \in JobLists }
    \cup { FetchResponse(200, "OK", JsonBody(OtherJson)) }
    \cup HollowFetches \cup FailedFetches

DrawingSubmitFetches ==
  { FetchResponse(200, "OK", JsonBody([kind |-> "drawing", id |-> "drw_1"])) }
    \cup HollowFetches \cup FailedFetches

\* A request that fetch has not settled yet.
FetchPending == [net |-> "pending", status |-> 0, statusText |-> "", body |-> EmptyBody]

\* GET /drawings/cache/{hash}
ProbeRequest(hash) ==
  [kind |-> "probe", api |-> "drawings/cache", page |-> <<>>, file_hash |-> hash,
   file |-> Undefined, answer |-> FetchPending]

\* The log, with what fetch settled the latest request with.
Answered(log, resp) == [log EXCEPT ![Len(log)].answer = resp]

\* The multipart form: `page`, `file_hash` if (fileHash), `file` if (file).
SubmitRequest(api, pageText, fileHash, file) ==
  [kind |-> "submit", api |-> api, page |-> pageText,
   file_hash |-> IF Truthy(fileHash) THEN fileHash ELSE Undefined,
   file |-> IF Truthy(file) THEN file ELSE Undefined,
   answer |-> FetchPending]

NoOutcome == [kind |-> "none", at |-> "", err |-> MkError("none", <<>>, 0, Undefined),
              value |-> [kind |-> "none"]]

Threw(at, err) == [kind |-> "threw", at |-> at, err |-> err, value |-> [kind |-> "none"]]

Gave(value) == [kind |-> "returned", at |-> "", err |-> MkError("none", <<>>, 0, Undefined),
                value |-> value]

\* Variant of BothGiven: the both-given guard left out.
BothGivenUnchecked(file, fileHash) == FALSE

\* if (fileHash && file) throw
BothGiven(file, fileHash) == Truthy(fileHash) /\ Truthy(file)

\* if (!fileHash && !file) throw
NeitherGiven(file, fileHash) == ~Truthy(fileHash) /\ ~Truthy(file)

\* new Job(client, projectId, item.job_id, item.page)
NewJob(item) == [type |-> "Job", id |-> item.job_id, page |-> item.page]

\* Variant of JobsOf: the jobs in reverse order.
JobsOfReversed(value) ==
  IF value.kind = "jobs"
  THEN [i \in 1..Len(value.jobs) |-> NewJob(value.jobs[Len(value.jobs) + 1 - i])]
  ELSE <<>>

\* (response.jobs ?? []).map(item => new Job(...))
JobsOf(value) ==
  IF value.kind = "jobs" THEN [i \in 1..Len(value.jobs) |-> NewJob(value.jobs[i])] ELSE <<>>

\* get ids(): this.jobs.map(job => job.id)
JobBatchIds(batch) == [i \in 1..Len(batch.jobs) |-> batch.jobs[i].id]

\* Variant of AddResult: no special case for one job.
AddResultAlwaysBatch(js) == [type |-> "JobBatch", jobs |-> js]

\* if (jobs.length === 1) return jobs[0]; return new JobBatch(jobs)
AddResult(js) ==
  IF Len(js) = 1 THEN js[1] ELSE [type |-> "JobBatch", jobs |-> js]

\* The end of the validation and hashing part of add / analyze: throws, or
\* the cache probe is issued, or (hash only) the form is built and submitted.
IngestBegin(api, file, fileHash, page) ==
  IF BothGiven(file, fileHash) THEN
    /\ ipc' = "done"
    /\ iout' = Threw("validate", PlainError("Provide file or fileHash, not both."))
    /\ UNCHANGED net
  ELSE IF NeitherGiven(file, fileHash) THEN
    /\ ipc' = "done"
    /\ iout' = Threw("validate", PlainError("Provide file or fileHash."))
    /\ UNCHANGED net
  ELSE IF ~Truthy(fileHash) /\ Truthy(file) THEN
    IF file \notin ReadableFiles THEN
      /\ ipc' = "done"
      /\ iout' = Threw("hash", MkError("Error", <<"ENOENT">>, 0, Undefined))
      /\ UNCHANGED net
    ELSE
      /\ ipc' = "probing"
      /\ net' = Append(net, ProbeRequest(ComputeFileHash(file)))
      /\ UNCHANGED iout
  ELSE IF api = "sheets" /\ ParsePageThrows(page) THEN
    /\ ipc' = "done"
    /\ iout' = Threw("page", PlainError("page is required"))
    /\ UNCHANGED net
  ELSE
    /\ ipc' = "submitting"
    /\ net' = Append(net, SubmitRequest(api, ParsePageSelector(page), fileHash, file))
    /\ UNCHANGED iout

\* sheets.add(file, options), up to its first await
SheetsAdd(file, fileHash, page) ==
  /\ ipc = "idle"
  /\ icall' = [api |-> "sheets", file |-> file, fileHash |-> fileHash, page |-> page,
               given |-> [file |-> file, fileHash |-> fileHash]]
  /\ IngestBegin("sheets", file, fileHash, page)
  /\ UNCHANGED <<jobVars, docVars, reqVars, resVars>>

\* drawings.analyze(file, options), up to its first await
DrawingsAnalyze(file, fileHash, page) ==
  /\ ipc = "idle"
  /\ icall' = [api |-> "drawings", file |-> file, fileHash |-> fileHash, page |-> page,
               given |-> [file |-> file, fileHash |-> fileHash]]
  /\ IngestBegin("drawings", file, fileHash, page)
  /\ UNCHANGED <<jobVars, docVars, reqVars, resVars>>

\* Variant of FileAfterProbe: `file = null` forgotten.
FileAfterProbeKept(cached, file) == file

\* if (cache.cached) { file = null; ... }
FileAfterProbe(cached, file) == IF cached THEN Null ELSE file

\* if (cache.cached) { ...; fileHash = computedHash }
HashAfterProbe(cached, computedHash, fileHash) == IF cached THEN computedHash ELSE fileHash

\* What a failed cache probe does to the call: the awaited request's error
\* leaves add / analyze (there is no try around the probe).
ProbeFailure(err, resp) ==
  /\ ipc' = "done"
  /\ iout' = Threw("probe", err)
  /\ net' = Answered(net, resp)
  /\ UNCHANGED icall

\* The cache probe settles: on failure the call ends; otherwise
\* `if (cache.cached) { file = null; fileHash = computedHash }`, the form is
\* built and the submit request is issued.
ProbeSettles(api, resp) ==
  /\ ipc = "probing"
  /\ icall.api = api
  /\ UNCHANGED <<jobVars, docVars, reqVars, resVars>>
  /\ LET r == RequestResult(resp)
         cached == ~r.threw /\ r.value.kind = "cache" /\ r.value.cached
         file == FileAfterProbe(cached, icall.file)
         fileHash == HashAfterProbe(cached, ComputeFileHash(icall.file), icall.fileHash)
     IN IF r.threw THEN ProbeFailure(r.err, resp)
        ELSE IF r.value = UndefinedValue THEN ProbeFailure(PropertyOfUndefined, resp)
        ELSE IF api = "sheets" /\ ParsePageThrows(icall.page) THEN
          /\ ipc' = "done"
          /\ iout' = Threw("page", PlainError("page is required"))
          /\ icall' = [icall EXCEPT !.file = file, !.fileHash = fileHash]
          /\ net' = Answered(net, resp)
        ELSE
          /\ ipc' = "submitting"
          /\ icall' = [icall EXCEPT !.file = file, !.fileHash = fileHash]
          /\ net' = Append(Answered(net, resp),
                           SubmitRequest(api, ParsePageSelector(icall.page), fileHash, file))
          /\ UNCHANGED iout

SheetsAddProbed(resp) == ProbeSettles("sheets", resp)

DrawingsAnalyzeProbed(resp) == ProbeSettles("drawings", resp)

\* The submit request of sheets.add settles: its error leaves add; otherwise
\* the jobs are wrapped.
SheetsAddSubmitted(resp) ==
  /\ ipc = "submitting"
  /\ icall.api = "sheets"
  /\ ipc' = "done"
  /\ UNCHANGED <<jobVars, docVars, reqVars, resVars>>
  /\ LET r == RequestResult(resp)
     IN iout' = IF r.threw THEN Threw("submit", r.err)
                ELSE IF r.value = UndefinedValue THEN Threw("submit", PropertyOfUndefined)
                ELSE Gave(AddResult(JobsOf(r.value)))
  /\ net' = Answered(net, resp)
  /\ UNCHANGED icall

\* The submit request of drawings.analyze settles: analyze returns what the
\* request returned.
DrawingsAnalyzeSubmitted(resp) ==
  /\ ipc = "submitting"
  /\ icall.api = "drawings"
  /\ ipc' = "done"
  /\ UNCHANGED <<jobVars, docVars, reqVars, resVars>>
  /\ LET r == RequestResult(resp)
     IN iout' = IF r.threw THEN Threw("submit", r.err) ELSE Gave(r.value)
  /\ net' = Answered(net, resp)
  /\ UNCHANGED icall

IngestInit ==
  /\ ipc = "idle"
  /\ icall = [api |-> "", file |-> Null, fileHash |-> Undefined, page |-> NumPage(1),
              given |-> [file |-> Null, fileHash |-> Undefined]]
  /\ net = <<>>
  /\ iout = NoOutcome

IngestNext ==
  \/ \E f \in Files, h \in HashOptions, p \in SheetPages : SheetsAdd(f, h, p)
  \/ \E f \in Files, h \in HashOptions, p \in DrawingPages : DrawingsAnalyze(f, h, p)
  \/ \E resp \in CacheFetches : SheetsAddProbed(resp)
  \/ \E resp \in CacheFetches : DrawingsAnalyzeProbed(resp)
  \/ \E resp \in SheetSubmitFetches : SheetsAddSubmitted(resp)
  \/ \E resp \in DrawingSubmitFetches : DrawingsAnalyzeSubmitted(resp)

\* ------------------------------------------------------------ Job, JobBatch
NoError == MkError("none", <<>>, 0, Undefined)

NoValue == [kind |-> "none"]

\* status.result ?? {}
EmptyResult == [kind |-> "result", sheet_id |-> <<>>]

SheetResult(id) == [kind |-> "result", sheet_id |-> <<"sheet_of", id>>]

StatusJson(status, hasResult, id, error) ==
  [kind |-> "status", job_id |-> id, status |-> status, hasResult |-> hasResult,
   result |-> IF hasResult THEN SheetResult(id) ELSE EmptyResult, error |-> error]

NonTerminal == {"queued", "running", "paused"}

\* What GET /projects/{p}/jobs/{id} can be answered with.
StatusFetches(id) ==
  { FetchResponse(200, "OK", JsonBody(StatusJson(s, FALSE, id, Undefined))) : s \in NonTerminal }
    \cup { FetchResponse(200, "OK", JsonBody(StatusJson("complete", r, id, Undefined))) : r \in BOOLEAN }
    \cup { FetchResponse(200, "OK", JsonBody(StatusJson("failed", FALSE, id, e))) : e \in {"out of memory", Undefined} }
    \cup HollowFetches \cup FailedFetches

\* The answers used where several jobs are polled side by side.
BatchStatusFetches(id) ==
  { FetchResponse(200, "OK", JsonBody(StatusJson("running", FALSE, id, Undefined))),
    FetchResponse(200, "OK", JsonBody(StatusJson("complete", TRUE, id, Undefined))),
    FetchResponse(200, "OK", JsonBody(StatusJson("failed", FALSE, id, "out of memory"))),
    FetchRejected("error") }

\* delay(ms): setTimeout(resolve, ms); a timer never fires before its delay,
\* and a delay below 1 ms is run as 1 ms.
Delay(ms) == Max(ms, 1)

\* Variant of JobFailedError: the server's error string left out.
JobFailedErrorBare(id, error) == APIError(<<"Job ", id, " failed">>, 0, Undefined)

\* new APIError(`Job ${this.id} failed: ${status.error}`)
JobFailedError(id, error) == APIError(<<"Job ", id, " failed: ", error>>, 0, Undefined)

\* new APIError(`Job ${this.id} did not complete within ${timeoutMs}ms`)
JobTimeoutError(id, timeoutMs) ==
  APIError(<<"Job ", id, " did not complete within ", DecStr(timeoutMs), "ms">>, 0, Undefined)

Event(ev, arg) == [ev |-> ev, arg |-> arg]

\* No status received yet.
NoStatus == StatusJson("", FALSE, "", Undefined)

\* One call of wait() or status(): where it is, its locals `start` and
\* `status`, the time its timer is due, what it has done so far, and what it
\* settled with and when.
IdleMember ==
  [pc |-> "idle", start |-> 0, status |-> NoStatus, due |-> 0, trace |-> <<>>,
   threw |-> FALSE, err |-> NoError, value |-> NoValue, endedAt |-> 0]

Resolve(m, value, t) == [m EXCEPT !.pc = "resolved", !.value = value, !.endedAt = t]

Reject(m, err, t) == [m EXCEPT !.pc = "rejected", !.threw = TRUE, !.err = err, !.endedAt = t]

\* this.status(): the request is handed to fetch
IssueStatus(m) == [m EXCEPT !.pc = "inflight", !.trace = Append(@, Event("request", ""))]

\* Variant of WithinTimeout: off by one.
WithinTimeoutEarly(t, start, timeoutMs) == t - start + 1 < timeoutMs

\* while (Date.now() - start < timeoutMs)
WithinTimeout(t, start, timeoutMs) == t - start < timeoutMs

\* The top of the loop of wait(): the next status request, or the timeout
\* error once the loop condition fails.
LoopTop(m, id, o, t) ==
  IF WithinTimeout(t, m.start, o.timeoutMs)
  THEN IssueStatus(m)
  ELSE Reject(m, JobTimeoutError(id, o.timeoutMs), t)

\* const start = Date.now(), then the loop
BeginWait(id, o, t) == LoopTop([IdleMember EXCEPT !.start = t], id, o, t)

\* Variant of Sleep: the interval doubled.
SleepDoubled(m, o, t) ==
  [m EXCEPT !.pc = "sleeping", !.due = t + 2 * Delay(o.pollIntervalMs),
            !.trace = Append(@, Event("sleep", ""))]

\* What wait() does with a status that is neither `complete` nor `failed`:
\* await delay(pollIntervalMs)
Sleep(m, o, t) ==
  [m EXCEPT !.pc = "sleeping", !.due = t + Delay(o.pollIntervalMs),
            !.trace = Append(@, Event("sleep", ""))]

\* Variant of IsComplete: `complete` counts only with a result.
IsCompleteWithResult(st) == st.status = "complete" /\ st.hasResult

\* if (status.status === 'complete')
IsComplete(st) == st.status = "complete"

\* Variant of IsFailed: `failed` is taken for one more status to wait on.
IsFailedNever(st) == FALSE

\* if (status.status === 'failed')
IsFailed(st) == st.status = "failed"

\* Variant of ResultOrEmpty: a missing result is returned as it is.
ResultAsReceived(st) == IF st.hasResult THEN st.result ELSE NoValue

\* return status.result ?? {}
ResultOrEmpty(st) == IF st.hasResult THEN st.result ELSE EmptyResult

\* Variant of AfterStatus: the deadline is tested again once the status is
\* in, before the status is looked at.
AfterStatusDeadlineFirst(m, id, o, r, t) ==
  IF r.threw THEN Reject([m EXCEPT !.trace = Append(@, Event("error", r.err.type))], r.err, t)
  ELSE IF r.value = UndefinedValue
    THEN Reject([m EXCEPT !.trace = Append(@, Event("error", "TypeError"))], PropertyOfUndefined, t)
  ELSE LET seen == [m EXCEPT !.status = r.value,
                                 !.trace = Append(@, Event("status", r.value.status))]
       IN IF ~WithinTimeout(t, m.start, o.timeoutMs)
            THEN Reject(seen, JobTimeoutError(id, o.timeoutMs), t)
          ELSE IF IsComplete(r.value) THEN Resolve(seen, ResultOrEmpty(r.value), t)
          ELSE IF IsFailed(r.value)
            THEN Reject(seen, JobFailedError(id, r.value.error), t)
          ELSE Sleep(seen, o, t)

\* The body of the loop of wait() after `await this.status()`.
AfterStatus(m, id, o, r, t) ==
  IF r.threw THEN Reject([m EXCEPT !.trace = Append(@, Event("error", r.err.type))], r.err, t)
  ELSE IF r.value = UndefinedValue
    THEN Reject([m EXCEPT !.trace = Append(@, Event("error", "TypeError"))], PropertyOfUndefined, t)
  ELSE LET seen == [m EXCEPT !.status = r.value,
                                 !.trace = Append(@, Event("status", r.value.status))]
       IN IF IsComplete(r.value) THEN Resolve(seen, ResultOrEmpty(r.value), t)
          ELSE IF IsFailed(r.value)
            THEN Reject(seen, JobFailedError(id, r.value.error), t)
          ELSE Sleep(seen, o, t)

\* Promise.all over n promises; the slot of each value is its promise's
\* position in the input, whatever the order of arrival.
PendingAll(n) ==
  [state |-> IF n = 0 THEN "fulfilled" ELSE "pending", values |-> [i \in 1..n |-> NoValue],
   remaining |-> n, err |-> NoError, from |-> 0]

NoPromise == [state |-> "none", values |-> <<>>, remaining |-> 0, err |-> NoError, from |-> 0]

\* Variant of ResultSlot: values kept in order of arrival.
ResultSlotByArrival(i, arrival) == arrival

ResultSlot(i, arrival) == i

\* Variant of AllSettle: a later rejection replaces an earlier one.
AllSettleLastWins(p, i, m) ==
  IF p.state \notin {"pending", "rejected"} THEN p
  ELSE IF m.pc = "rejected" THEN [p EXCEPT !.state = "rejected", !.err = m.err, !.from = i]
  ELSE IF m.pc = "resolved" /\ p.state = "pending"
    THEN [p EXCEPT !.values[i] = m.value,
                   !.remaining = @ - 1,
                   !.state = IF p.remaining = 1 THEN "fulfilled" ELSE "pending"]
  ELSE p

\* One input promise of Promise.all has settled.
AllSettle(p, i, m) ==
  IF p.state # "pending" THEN p
  ELSE IF m.pc = "rejected" THEN [p EXCEPT !.state = "rejected", !.err = m.err, !.from = i]
  ELSE IF m.pc = "resolved"
    THEN [p EXCEPT !.values[ResultSlot(i, Len(p.values) - p.remaining + 1)] = m.value,
                   !.remaining = @ - 1,
                   !.state = IF p.remaining = 1 THEN "fulfilled" ELSE "pending"]
  ELSE p

Settled(m) == m.pc \in {"resolved", "rejected"}

\* Fold the promises that are already settled when Promise.all is called
\* (wait() threw before its first await) into it, in input order.
RECURSIVE AllSettleUpTo(_, _, _)
AllSettleUpTo(p, ms, k) ==
  IF k = 0 THEN p ELSE AllSettle(AllSettleUpTo(p, ms, k - 1), k, ms[k])

RECURSIVE SettledPositions(_, _)
SettledPositions(ms, k) ==
  IF k = 0 THEN <<>>
  ELSE SettledPositions(ms, k - 1) \o (IF Settled(ms[k]) THEN <<k>> ELSE <<>>)

WaitOptions == [timeoutMs : 0..MaxTimeoutMs, pollIntervalMs : 0..MaxPollMs]

\* job.wait(options), up to its first await
JobWait(id, o) ==
  /\ jmode = "idle"
  /\ jmode' = "wait"
  /\ jobs' = <<id>>
  /\ opts' = o
  /\ member' = <<BeginWait(id, o, now)>>
  /\ order' = SettledPositions(member', 1)
  /\ UNCHANGED <<now, pall, ingestVars, docVars, reqVars, resVars>>

\* batch.waitAll(options): Promise.all(this.jobs.map(job => job.wait(options)))
WaitAll(ids, o) ==
  /\ jmode = "idle"
  /\ jmode' = "waitAll"
  /\ jobs' = ids
  /\ opts' = o
  /\ member' = [i \in 1..Len(ids) |-> BeginWait(ids[i], o, now)]
  /\ pall' = AllSettleUpTo(PendingAll(Len(ids)), member', Len(ids))
  /\ order' = SettledPositions(member', Len(ids))
  /\ UNCHANGED <<now, ingestVars, docVars, reqVars, resVars>>

\* batch.statusAll(): Promise.all(this.jobs.map(job => job.status()))
StatusAll(ids) ==
  /\ jmode = "idle"
  /\ jmode' = "statusAll"
  /\ jobs' = ids
  /\ member' = [i \in 1..Len(ids) |-> IssueStatus(IdleMember)]
  /\ pall' = PendingAll(Len(ids))
  /\ UNCHANGED <<opts, now, order, ingestVars, docVars, reqVars, resVars>>

\* Variant of StatusSettles: once Promise.all has rejected, a member whose
\* request settles is stopped with the error Promise.all rejected with.
StatusSettlesCancelling(i, resp, d) ==
  /\ jmode \in {"wait", "waitAll"}
  /\ i \in 1..Len(jobs)
  /\ member[i].pc = "inflight"
  /\ now' = now + d
  /\ member' = [member EXCEPT ![i] =
                  IF pall.state = "rejected"
                  THEN Reject([@ EXCEPT !.trace = Append(@, Event("cancelled", ""))], pall.err, now')
                  ELSE AfterStatus(@, jobs[i], opts, RequestResult(resp), now')]
  /\ pall' = AllSettle(pall, i, member'[i])
  /\ order' = IF Settled(member'[i]) THEN Append(order, i) ELSE order
  /\ UNCHANGED <<jmode, jobs, opts, ingestVars, docVars, reqVars, resVars>>

\* The status request of job i's wait() settles, d ms later.
StatusSettles(i, resp, d) ==
  /\ jmode \in {"wait", "waitAll"}
  /\ i \in 1..Len(jobs)
  /\ member[i].pc = "inflight"
  /\ now' = now + d
  /\ member' = [member EXCEPT ![i] = AfterStatus(@, jobs[i], opts, RequestResult(resp), now')]
  /\ pall' = AllSettle(pall, i, member'[i])
  /\ order' = IF Settled(member'[i]) THEN Append(order, i) ELSE order
  /\ UNCHANGED <<jmode, jobs, opts, ingestVars, docVars, reqVars, resVars>>

\* The timer of job i's delay() fires, `late` ms after it was due.
TimerFires(i, late) ==
  /\ jmode \in {"wait", "waitAll"}
  /\ i \in 1..Len(jobs)
  /\ member[i].pc = "sleeping"
  /\ now' = Max(now, member[i].due) + late
  /\ member' = [member EXCEPT ![i] = LoopTop(@, jobs[i], opts, now')]
  /\ pall' = AllSettle(pall, i, member'[i])
  /\ order' = IF Settled(member'[i]) THEN Append(order, i) ELSE order
  /\ UNCHANGED <<jmode, jobs, opts, ingestVars, docVars, reqVars, resVars>>

\* The request of job i's status() in statusAll settles: status() returns
\* what the request returned.
StatusAllSettles(i, resp, d) ==
  /\ jmode = "statusAll"
  /\ i \in 1..Len(jobs)
  /\ member[i].pc = "inflight"
  /\ now' = now + d
  /\ LET r == RequestResult(resp)
     IN member' = [member EXCEPT ![i] =
                     IF r.threw
                     THEN Reject([@ EXCEPT !.trace = Append(@, Event("error", r.err.type))],
                                 r.err, now')
                     ELSE Resolve([@ EXCEPT !.trace = Append(@, Event("answer", ""))],
                                  r.value, now')]
  /\ pall' = AllSettle(pall, i, member'[i])
  /\ order' = Append(order, i)
  /\ UNCHANGED <<jmode, jobs, opts, ingestVars, docVars, reqVars, resVars>>

JobInit ==
  /\ jmode = "idle"
  /\ jobs = <<>>
  /\ opts = [timeoutMs |-> 0, pollIntervalMs |-> 0]
  /\ now = 0
  /\ member = <<>>
  /\ pall = NoPromise
  /\ order = <<>>

\* ----------------------------------------------------------------- DocQuery
\* A JSON value as a cell of a query row: a number, a string (text), a
\* boolean, null, or a property that is absent (undefined).
JNum(n) == [t |-> "number", n |-> n, s |-> <<>>, b |-> FALSE]
JStr(s) == [t |-> "string", n |-> 0, s |-> s, b |-> FALSE]
JBool(b) == [t |-> "boolean", n |-> 0, s |-> <<>>, b |-> b]
JNull == [t |-> "null", n |-> 0, s |-> <<>>, b |-> FALSE]
JMissing == [t |-> "undefined", n |-> 0, s |-> <<>>, b |-> FALSE]

\* Boolean(value)
ToBoolean(v) ==
  CASE v.t = "boolean" -> v.b
    [] v.t = "number" -> v.n # 0
    [] v.t = "string" -> v.s # <<>>
    [] OTHER -> FALSE

\* value == null (null or undefined)
IsNullish(v) == v.t \in {"null", "undefined"}

DigitValue(c) == CHOOSE d \in 0..9 : Digit(d) = c

RECURSIVE DigitsValue(_)
DigitsValue(s) ==
  IF s = <<>> THEN 0
  ELSE 10 * DigitsValue(SubSeq(s, 1, Len(s) - 1)) + DigitValue(s[Len(s)])

\* asInt: Number(value), truncated, and 0 when it is not finite.  Number()
\* of a boolean is 0 or 1, of null 0, of undefined NaN, of text the number
\* it spells after trimming (0 for blank text, NaN for text that is no
\* number).  Numbers here are integers, text spells unsigned integers or
\* no number at all.
AsInt(v) ==
  CASE v.t = "number" -> v.n
    [] v.t = "boolean" -> IF v.b THEN 1 ELSE 0
    [] v.t = "string" -> IF IsDigits(Trim(v.s)) THEN DigitsValue(Trim(v.s)) ELSE 0
    [] OTHER -> 0

\* String(value)
StringOf(v) ==
  CASE v.t = "number" -> IF v.n < 0 THEN <<"-">> \o DecStr(0 - v.n) ELSE DecStr(v.n)
    [] v.t = "string" -> v.s
    [] v.t = "boolean" -> IF v.b THEN <<"t", "r", "u", "e">> ELSE <<"f", "a", "l", "s", "e">>
    [] v.t = "null" -> <<"n", "u", "l", "l">>
    [] OTHER -> <<"u", "n", "d", "e", "f", "i", "n", "e", "d">>

\* requireText: the trimmed text, or `<field> is required` when it is blank.
RequireTextThrows(value) == Trim(value) = <<>>

RequireText(value) == Trim(value)

RequiredError(fieldName) == MkError("Error", <<fieldName, " is required">>, 0, Undefined)

\* Math.max(1, Math.min(Math.trunc(option ?? fallback), 200))
ClampLimit(option, fallback) ==
  Max(1, Min(IF option.given THEN option.n ELSE fallback, 200))

\* A row object of a query result, and an item of `records` that is no
\* object (asRecord gives null for it).
NonObject == [obj |-> FALSE]

\* records(payload): payload.records ?? [], without the items that are no
\* objects.
CypherJson(rows) == [kind |-> "cypher", records |-> rows]

Records(payload) ==
  IF payload.kind = "cypher" THEN SelectSeq(payload.records, LAMBDA r : r.obj) ELSE <<>>

\* POST /projects/{id}/docquery/cypher, by the query it runs.
CypherRequest(query) == [query |-> query, answer |-> FetchPending]

\* The query the call is awaiting, if it is awaiting one.
AwaitedQuery == IF dpc = "querying" THEN dq[Len(dq)].query ELSE ""

\* What the request of log entry k was answered with, as request() maps it.
PayloadOf(log, k) == RequestResult(log[k].answer).value

\* Some awaited payload was undefined (204 or an empty body): reading its
\* `records` throws.
SomePayloadUndefined(log) == \E k \in 1..Len(log) : PayloadOf(log, k) = UndefinedValue

RowsOf(log, k) == Records(PayloadOf(log, k))

\* Variant of FirstRow: no row is ever taken.
FirstRowNone(rows) == NonObject

\* rows[0]: the first row, and undefined (here NonObject) when there is none.
FirstRow(rows) == IF Len(rows) > 0 THEN rows[1] ELSE NonObject

NoReport == [kind |-> "none", err |-> NoError, report |-> [command |-> ""]]
ReportThrew(err) == [kind |-> "threw", err |-> err, report |-> [command |-> ""]]
ReportGave(report) == [kind |-> "returned", err |-> NoError, report |-> report]

\* Options whose limit is absent, or a number.
NoLimit == [given |-> FALSE, n |-> 0]
Limit(n) == [given |-> TRUE, n |-> n]

\* --- docquery.sheetSummary
S111 == <<"S", "1", "1", "1">>

SummaryQueries == <<"sheet_node", "label_counts", "rel_counts", "reachability", "orphans">>

\* Cells a count column can hold.
CountCells == { JNum(k) : k \in 0..MaxCount } \cup { JNull, JStr(<<" ", "2">>) }

FlagCells == { JBool(TRUE), JBool(FALSE), JNull }

ReachabilityRow(has, count, total, reachable) ==
  [obj |-> TRUE, has_sheet_node |-> has, sheet_node_count |-> count,
   non_sheet_total |-> total, reachable_non_sheet |-> reachable]

ReachabilityRows ==
  { ReachabilityRow(h, c, t, r) : h \in FlagCells, c \in CountCells, t \in CountCells, r \in CountCells }

\* The rows each query of sheetSummary can come back with.
SummaryRows(query) ==
  CASE query = "sheet_node" ->
         { <<>>, <<[obj |-> TRUE, sheet_id |-> JStr(S111), uuid |-> JStr(<<"u", "0">>)]>> }
    [] query = "label_counts" ->
         { <<>>, <<[obj |-> TRUE, label |-> JStr(<<"C">>), count |-> JNum(2)]>> }
    [] query = "rel_counts" ->
         { <<>>, <<[obj |-> TRUE, rel_type |-> JStr(<<"R">>), count |-> JNum(5)]>> }
    [] query = "reachability" ->
         { <<>>, <<NonObject>> } \cup { <<row>> : row \in ReachabilityRows }
    [] query = "orphans" ->
         { <<>>, <<[obj |-> TRUE, uuid |-> JStr(<<"u", "1">>)]>> }
    [] OTHER -> {}

\* What a query's request can settle with: its rows, or a rejection; for
\* the first query and the reachability query also a non-2xx response, an
\* empty body and a payload without `records`.
SummaryFetches(query) ==
  { FetchResponse(200, "OK", JsonBody(CypherJson(rows))) : rows \in SummaryRows(query) }
    \cup { FetchRejected("error") }
    \cup (IF query \in {"sheet_node", "reachability"}
          THEN { FetchResponse(500, "Internal Server Error", JsonBody(ErrorJson("boom", "E_INTERNAL"))),
                 FetchResponse(200, "OK", EmptyBody),
                 FetchResponse(200, "OK", JsonBody(OtherJson)) }
          ELSE {})

\* Variant of Unreachable: the difference, not floored at zero.
UnreachableUnfloored(nonSheetTotal, reachableNonSheet) == nonSheetTotal - reachableNonSheet

\* Math.max(0, nonSheetTotal - reachableNonSheet)
Unreachable(nonSheetTotal, reachableNonSheet) == Max(0, nonSheetTotal - reachableNonSheet)

\* The reachability block: its defaults, overwritten from the first row of
\* the reachability query when there is one.
Reachability(reachabilityRows) ==
  IF Len(reachabilityRows) > 0
  THEN LET first == reachabilityRows[1]
           nonSheetTotal == AsInt(first.non_sheet_total)
           reachableNonSheet == AsInt(first.reachable_non_sheet)
       IN [has_sheet_node |-> ToBoolean(first.has_sheet_node),
           sheet_node_count |-> AsInt(first.sheet_node_count),
           non_sheet_total |-> nonSheetTotal,
           reachable_non_sheet |-> reachableNonSheet,
           unreachable_non_sheet |-> Unreachable(nonSheetTotal, reachableNonSheet)]
  ELSE [has_sheet_node |-> FALSE, sheet_node_count |-> 0, non_sheet_total |-> 0,
        reachable_non_sheet |-> 0, unreachable_non_sheet |-> 0]

SummaryWarning(type, message) == [type |-> type, message |-> message]

\* Variant of HasDuplicateSheetNodes: one sheet node already counts.
HasDuplicateSheetNodesFromOne(reachability) == reachability.sheet_node_count > 0

HasDuplicateSheetNodes(reachability) == reachability.sheet_node_count > 1

\* The warnings, in the order the three tests push them.
SummaryWarnings(reachability, cleanSheetId) ==
  (IF ~reachability.has_sheet_node
   THEN <<SummaryWarning("missing_sheet_node",
            <<"No :Entity:Sheet node found for sheet_id=", cleanSheetId, ".">>)>>
   ELSE <<>>)
  \o (IF HasDuplicateSheetNodes(reachability)
      THEN <<SummaryWarning("duplicate_sheet_nodes",
               <<"Found ", DecStr(reachability.sheet_node_count), " Sheet nodes for sheet_id=",
                 cleanSheetId, "; expected 1.">>)>>
      ELSE <<>>)
  \o (IF reachability.unreachable_non_sheet > 0
      THEN <<SummaryWarning("unreachable_entities",
               <<DecStr(reachability.unreachable_non_sheet),
                 " non-sheet entities are not reachable from sheet ", cleanSheetId,
                 " via LOCATED_IN*1..2.">>)>>
      ELSE <<>>)

\* The report built once the five queries are answered.
SummaryReport(call, log) ==
  LET reachability == Reachability(RowsOf(log, 4))
  IN [command |-> "sheet-summary",
      sheet_id |-> call.id,
      orphan_limit |-> call.limit,
      sheet_node |-> FirstRow(RowsOf(log, 1)),
      node_label_counts |-> RowsOf(log, 2),
      relationship_counts |-> RowsOf(log, 3),
      reachability |-> reachability,
      orphan_examples |-> RowsOf(log, 5),
      warnings |-> SummaryWarnings(reachability, call.id)]

DocCall(op, given, id, limit) == [op |-> op, given |-> given, id |-> id, limit |-> limit]

\* A report call up to its first await: the local validation, then the
\* first query.
ReportBegin(op, field, text, limit, firstQuery) ==
  /\ dpc = "idle"
  /\ IF RequireTextThrows(text)
     THEN /\ dpc' = "done"
          /\ dcall' = DocCall(op, text, <<>>, 0)
          /\ dq' = <<>>
          /\ dout' = ReportThrew(RequiredError(field))
     ELSE /\ dpc' = "querying"
          /\ dcall' = DocCall(op, text, RequireText(text), limit)
          /\ dq' = <<CypherRequest(firstQuery)>>
          /\ dout' = NoReport

SheetSummary(sheetId, options) ==
  /\ ReportBegin("sheetSummary", "sheet_id", sheetId, ClampLimit(options, 10), SummaryQueries[1])
  /\ UNCHANGED <<ingestVars, jobVars, reqVars, resVars>>

\* A report call from the settling of an awaited query up to the next
\* await, the return or the throw.  The payloads are first read after the
\* last query: report is what the call builds from all of them.
ReportQueried(queries, resp, report) ==
  LET log == Answered(dq, resp)
  IN /\ dpc = "querying"
     /\ dq' = IF ~RequestResult(resp).threw /\ Len(log) < Len(queries)
              THEN Append(log, CypherRequest(queries[Len(log) + 1]))
              ELSE log
     /\ IF RequestResult(resp).threw
        THEN dpc' = "done" /\ dout' = ReportThrew(RequestResult(resp).err)
        ELSE IF Len(log) < Len(queries)
        THEN UNCHANGED <<dpc, dout>>
        ELSE /\ dpc' = "done"
             /\ dout' = IF SomePayloadUndefined(log)
                        THEN ReportThrew(PropertyOfUndefined)
                        ELSE ReportGave(report)
     /\ UNCHANGED dcall

SheetSummaryQueried(resp) ==
  /\ dcall.op = "sheetSummary"
  /\ ReportQueried(SummaryQueries, resp, SummaryReport(dcall, Answered(dq, resp)))
  /\ UNCHANGED <<ingestVars, jobVars, reqVars, resVars>>

\* --- docquery.sheetList
S1 == <<"S", "1">>

S2 == <<"S", "2">>

ListQueries == <<"sheet_nodes", "inventory", "duplicates", "missing_sheet_id">>

\* Cells a sheet_id column can hold: two ids, blank text, null.
SheetIdCells == { JStr(S1), JStr(S2), JStr(<<" ">>), JNull }

\* count(n) of an inventory group: a number from 1 up, or (as text) "1".
EntityCountCells == { JNum(k) : k \in 1..2 } \cup { JStr(<<"1">>) }

SheetNodeRow(id) == [obj |-> TRUE, sheet_id |-> id, uuid |-> JStr(<<"u">>)]

InventoryRow(id, count) == [obj |-> TRUE, sheet_id |-> id, entity_count |-> count]

\* The sheet-node query gives a row per Sheet node, so an id can repeat;
\* the inventory query groups by sheet_id, so its ids are distinct.
SheetNodeAnswers ==
  UNION { [1..n -> { SheetNodeRow(id) : id \in SheetIdCells }] : n \in 0..MaxRows }

InventoryAnswers ==
  UNION { { rows \in [1..n -> { InventoryRow(id, c) : id \in SheetIdCells, c \in EntityCountCells }] :
              \A i, j \in 1..n : i # j => rows[i].sheet_id # rows[j].sheet_id } : n \in 0..MaxRows }

ListRows(query) ==
  CASE query = "sheet_nodes" -> SheetNodeAnswers
    [] query = "inventory" -> InventoryAnswers
    [] query = "duplicates" ->
         { <<>>, <<[obj |-> TRUE, sheet_id |-> JStr(S1), sheet_node_count |-> JNum(2)]>> }
    [] query = "missing_sheet_id" ->
         { <<>> } \cup { <<[obj |-> TRUE, missing_sheet_id_count |-> c]>> : c \in {JNum(0), JNum(2)} }
    [] OTHER -> {}

\* What a query's request can settle with: its rows, or a rejection; for
\* the first query also a non-2xx response, an empty body and a payload
\* without `records`.
ListFetches(query) ==
  { FetchResponse(200, "OK", JsonBody(CypherJson(rows))) : rows \in ListRows(query) }
    \cup { FetchRejected("error") }
    \cup (IF query = "sheet_nodes"
          THEN { FetchResponse(500, "Internal Server Error", JsonBody(ErrorJson("boom", "E_INTERNAL"))),
                 FetchResponse(200, "OK", EmptyBody),
                 FetchResponse(200, "OK", JsonBody(OtherJson)) }
          ELSE {})

\* typeof id === 'string' && id.trim().length > 0
IsSheetIdText(cell) == cell.t = "string" /\ Trim(cell.s) # <<>>

\* new Set(rows.map((row) => row.sheet_id).filter(...))
SheetIdSet(rows) ==
  { rows[k].sheet_id.s : k \in { k \in DOMAIN rows : IsSheetIdText(rows[k].sheet_id) } }

\* The UTF-16 code unit of a character of the texts used here.
CharCode(c) ==
  IF c = " " THEN 32
  ELSE IF c \in { Digit(d) : d \in 0..9 } THEN 48 + DigitValue(c)
  ELSE IF c = "S" THEN 83
  ELSE 117

\* a < b in the order Array.prototype.sort() uses for strings.
RECURSIVE TextLess(_, _)
TextLess(a, b) ==
  IF b = <<>> THEN FALSE
  ELSE IF a = <<>> THEN TRUE
  ELSE IF Head(a) # Head(b) THEN CharCode(Head(a)) < CharCode(Head(b))
  ELSE TextLess(Tail(a), Tail(b))

\* [...set].sort()
RECURSIVE SortTexts(_)
SortTexts(set) ==
  IF set = {} THEN <<>>
  ELSE LET least == CHOOSE x \in set : \A y \in set \ {x} : TextLess(x, y)
       IN <<least>> \o SortTexts(set \ {least})

\* inventoryCounts.get(id) ?? 0, the map being filled row after row (a
\* later row of the same id replaces an earlier one).
RECURSIVE InventoryCount(_, _)
InventoryCount(inventory, id) ==
  IF inventory = <<>> THEN 0
  ELSE LET last == inventory[Len(inventory)]
       IN IF IsSheetIdText(last.sheet_id) /\ last.sheet_id.s = id
          THEN AsInt(last.entity_count)
          ELSE InventoryCount(SubSeq(inventory, 1, Len(inventory) - 1), id)

\* inventory.reduce((sum, row) => sum + asInt(row.entity_count), 0)
RECURSIVE TotalEntities(_)
TotalEntities(inventory) ==
  IF inventory = <<>> THEN 0
  ELSE AsInt(Head(inventory).entity_count) + TotalEntities(Tail(inventory))

\* missingSheetRows.length > 0 ? asInt(missingSheetRows[0].missing_sheet_id_count) : 0
MissingSheetIdCount(missingSheetRows) ==
  IF Len(missingSheetRows) > 0 THEN AsInt(missingSheetRows[1].missing_sheet_id_count) ELSE 0

\* Variant of OnlySelf: a sheet id without any inventory counts as well.
OnlySelfOrNone(count) == count <= 1

\* (inventoryCounts.get(id) ?? 0) === 1
OnlySelf(count) == count = 1

\* Variant of MissingSheetIdWarned: never warned.
MissingSheetIdNeverWarned(missingSheetIdCount) == FALSE

\* missingSheetIdCount > 0
MissingSheetIdWarned(missingSheetIdCount) == missingSheetIdCount > 0

\* The mismatch warnings, in the order the five tests push them.
MismatchWarnings(sheetNodes, inventory, duplicateSheetNodes, missingSheetIdCount) ==
  LET sheetNodeIds == SheetIdSet(sheetNodes)
      inventoryIds == SheetIdSet(inventory)
      inventoryWithoutSheetNode == SortTexts(inventoryIds \ sheetNodeIds)
      sheetNodesWithoutInventory == SortTexts(sheetNodeIds \ inventoryIds)
      sheetNodesWithOnlySelf ==
        SortTexts({ id \in sheetNodeIds : OnlySelf(InventoryCount(inventory, id)) })
  IN (IF Len(inventoryWithoutSheetNode) > 0
      THEN <<[type |-> "inventory_sheet_id_without_sheet_node",
              sheet_ids |-> inventoryWithoutSheetNode,
              message |-> "Entities exist for sheet_id values that do not have a Sheet node."]>>
      ELSE <<>>)
     \o (IF Len(sheetNodesWithoutInventory) > 0
         THEN <<[type |-> "sheet_node_without_inventory",
                 sheet_ids |-> sheetNodesWithoutInventory,
                 message |-> "Sheet nodes exist with no matching entity inventory rows."]>>
         ELSE <<>>)
     \o (IF Len(duplicateSheetNodes) > 0
         THEN <<[type |-> "duplicate_sheet_nodes",
                 duplicates |-> duplicateSheetNodes,
                 message |-> "Multiple Sheet nodes found for one or more sheet_id values."]>>
         ELSE <<>>)
     \o (IF MissingSheetIdWarned(missingSheetIdCount)
         THEN <<[type |-> "entities_missing_sheet_id",
                 count |-> missingSheetIdCount,
                 message |-> "Some entities are missing sheet_id."]>>
         ELSE <<>>)
     \o (IF Len(sheetNodesWithOnlySelf) > 0
         THEN <<[type |-> "sheet_nodes_without_non_sheet_entities",
                 sheet_ids |-> sheetNodesWithOnlySelf,
                 message |-> "Sheet IDs where inventory count is only the Sheet node itself."]>>
         ELSE <<>>)

\* The report built once the four queries are answered.
ListReport(call, log) ==
  LET sheetNodes == RowsOf(log, 1)
      inventory == RowsOf(log, 2)
      missingSheetIdCount == MissingSheetIdCount(RowsOf(log, 4))
  IN [command |-> "sheet-list",
      sheet_nodes |-> sheetNodes,
      entity_sheet_inventory |-> inventory,
      totals |-> [sheet_node_count |-> Len(sheetNodes),
                  inventory_sheet_id_count |-> Cardinality(SheetIdSet(inventory)),
                  total_entities |-> TotalEntities(inventory),
                  missing_sheet_id_count |-> missingSheetIdCount],
      mismatch_warnings |->
        MismatchWarnings(sheetNodes, inventory, RowsOf(log, 3), missingSheetIdCount)]

\* sheetList takes no argument: it goes straight to its first query.
SheetList ==
  /\ dpc = "idle"
  /\ dpc' = "querying"
  /\ dcall' = DocCall("sheetList", <<>>, <<>>, 0)
  /\ dq' = <<CypherRequest(ListQueries[1])>>
  /\ dout' = NoReport
  /\ UNCHANGED <<ingestVars, jobVars, reqVars, resVars>>

SheetListQueried(resp) ==
  /\ dcall.op = "sheetList"
  /\ ReportQueried(ListQueries, resp, ListReport(dcall, Answered(dq, resp)))
  /\ UNCHANGED <<ingestVars, jobVars, reqVars, resVars>>

\* --- docquery.referenceResolve
\* A cell that holds an array of cells, and one that holds no array.
JArr(items) == [isArray |-> TRUE, items |-> items]

NotArray == [isArray |-> FALSE, items |-> <<>>]

Callout == <<"C">>

SourceRow(labels, targetSheets) ==
  [obj |-> TRUE, uuid |-> JStr(<<"u", "0">>), labels |-> labels, target_sheets |-> targetSheets]

SourceRows ==
  { SourceRow(l, t) : l \in { JArr(<<JStr(Callout)>>), NotArray },
                      t \in { JArr(<<JNum(1)>>), NotArray } }

ReferenceRow(relUuid, targetUuid, loc1, loc2, targetSheetId, metaTargetSheet) ==
  [obj |-> TRUE, rel_uuid |-> relUuid, target_uuid |-> targetUuid,
   target_located_in_uuid_1 |-> loc1, target_located_in_uuid_2 |-> loc2,
   target_sheet_id |-> targetSheetId, meta_target_sheet |-> metaTargetSheet]

\* The rows of the traversal query: a reference with its target, a target
\* without relationship id, or neither (the source has no reference); the
\* target located in one parent, or in another parent and a grandparent;
\* the target's sheet id absent, text or a number; the
\* relationship's meta target sheet absent or text.
ReferenceRows ==
  { ReferenceRow(ids[1], ids[2], locs[1], locs[2], sheet, meta) :
      ids \in { <<JStr(<<"r">>), JStr(<<"t">>)>>, <<JNull, JStr(<<"t">>)>>, <<JNull, JNull>> },
      locs \in { <<JStr(<<"l", "1">>), JNull>>, <<JStr(<<"l", "2">>), JStr(<<"l", "3">>)>> },
      sheet \in { JNull, JStr(S1), JNum(1) },
      meta \in { JNull, JStr(<<"1">>) } }

ReferenceAnswers == UNION { [1..n -> ReferenceRows] : n \in 0..MaxRefRows }

ResolveFailures ==
  { FetchRejected("error"),
    FetchResponse(500, "Internal Server Error", JsonBody(ErrorJson("boom", "E_INTERNAL"))),
    FetchResponse(200, "OK", EmptyBody) }

SourceFetches ==
  { FetchResponse(200, "OK", JsonBody(CypherJson(rows))) : rows \in { <<>> } \cup { <<r>> : r \in SourceRows } }
    \cup ResolveFailures

ReferenceFetches ==
  { FetchResponse(200, "OK", JsonBody(CypherJson(rows))) : rows \in ReferenceAnswers }
    \cup ResolveFailures

ResolveFetches(query) ==
  CASE query = "source" -> SourceFetches
    [] query = "references" -> ReferenceFetches
    [] OTHER -> {}

\* Array.isArray(source.labels) ? source.labels.filter(typeof label === 'string') : []
SourceLabels(source) ==
  IF source.labels.isArray
  THEN SelectSeq(source.labels.items, LAMBDA label : label.t = "string")
  ELSE <<>>

\* Array.isArray(source.target_sheets) ? source.target_sheets.map(String) : []
SourceTargetSheets(source) ==
  IF source.target_sheets.isArray
  THEN [i \in 1..Len(source.target_sheets.items) |-> StringOf(source.target_sheets.items[i])]
  ELSE <<>>

\* What JSON.stringify writes for a cell inside an array: undefined as null.
JsonCell(v) == IF v.t = "undefined" THEN JNull ELSE v

\* Variant of DedupeKey: the relationship id and the target id only.
DedupeKeyOfPair(row) == <<JsonCell(row.rel_uuid), JsonCell(row.target_uuid)>>

\* JSON.stringify([relUuid, targetUuid, located_in_uuid_1, located_in_uuid_2])
DedupeKey(row) ==
  <<JsonCell(row.rel_uuid), JsonCell(row.target_uuid),
    JsonCell(row.target_located_in_uuid_1), JsonCell(row.target_located_in_uuid_2)>>

\* Variant of SheetMatchMeta: the cells compared as they are.
SheetMatchMetaStrict(targetSheetId, metaTargetSheet) ==
  IF ~IsNullish(targetSheetId) /\ ~IsNullish(metaTargetSheet)
  THEN JBool(targetSheetId = metaTargetSheet)
  ELSE JNull

\* sheetMatchMeta: null, or String(targetSheetId) === String(metaTargetSheet)
\* when both are present.
SheetMatchMeta(targetSheetId, metaTargetSheet) ==
  IF ~IsNullish(targetSheetId) /\ ~IsNullish(metaTargetSheet)
  THEN JBool(StringOf(targetSheetId) = StringOf(metaTargetSheet))
  ELSE JNull

\* sheetInSourceTargets: null, or sourceTargetSheets.includes(String(targetSheetId))
\* when the id is present and the list is not empty.
SheetInSourceTargets(targetSheetId, sourceTargetSheets) ==
  IF ~IsNullish(targetSheetId) /\ Len(sourceTargetSheets) > 0
  THEN JBool(\E i \in 1..Len(sourceTargetSheets) : sourceTargetSheets[i] = StringOf(targetSheetId))
  ELSE JNull

Hop(from, relType, to) == [from_uuid |-> from, rel_type |-> relType, to_uuid |-> to]

TraversalPath(nodeUuid, row) ==
  <<Hop(JStr(nodeUuid), "REFERENCES", row.target_uuid)>>
  \o (IF ToBoolean(row.target_located_in_uuid_1)
      THEN <<Hop(row.target_uuid, "LOCATED_IN", row.target_located_in_uuid_1)>>
      ELSE <<>>)
  \o (IF ToBoolean(row.target_located_in_uuid_2)
      THEN <<Hop(row.target_located_in_uuid_1, "LOCATED_IN", row.target_located_in_uuid_2)>>
      ELSE <<>>)

ResolvedReference(nodeUuid, row, sourceTargetSheets) ==
  [relationship |-> [rel_uuid |-> row.rel_uuid, meta_target_sheet |-> row.meta_target_sheet],
   target |-> [uuid |-> row.target_uuid, sheet_id |-> row.target_sheet_id],
   target_context |-> [located_in_1 |-> [uuid |-> row.target_located_in_uuid_1],
                       located_in_2 |-> [uuid |-> row.target_located_in_uuid_2]],
   checks |-> [target_sheet_matches_meta_target_sheet |->
                 SheetMatchMeta(row.target_sheet_id, row.meta_target_sheet),
               target_sheet_in_source_target_sheets |->
                 SheetInSourceTargets(row.target_sheet_id, sourceTargetSheets)],
   traversal_path |-> TraversalPath(nodeUuid, row)]

ReferenceWarning(type, relUuid, message) ==
  [type |-> type, rel_uuid |-> relUuid, message |-> message]

\* The warnings one kept row pushes.
RowWarnings(row, sourceTargetSheets) ==
  (IF SheetMatchMeta(row.target_sheet_id, row.meta_target_sheet) = JBool(FALSE)
   THEN <<ReferenceWarning("meta_target_sheet_mismatch", row.rel_uuid,
                           "Target sheet_id does not match relationship meta_target_sheet.")>>
   ELSE <<>>)
  \o (IF SheetInSourceTargets(row.target_sheet_id, sourceTargetSheets) = JBool(FALSE)
      THEN <<ReferenceWarning("source_target_sheets_mismatch", row.rel_uuid,
                              "Target sheet_id is not listed in source target_sheets.")>>
      ELSE <<>>)

\* The loop over the rows: acc holds resolvedReferences, warnings and seen.
RECURSIVE ResolveLoop(_, _, _, _)
ResolveLoop(rows, nodeUuid, sourceTargetSheets, acc) ==
  IF rows = <<>> THEN acc
  ELSE LET row == Head(rows)
           next ==
             IF IsNullish(row.rel_uuid) /\ IsNullish(row.target_uuid) THEN acc
             ELSE IF DedupeKey(row) \in acc.seen THEN acc
             ELSE [resolved |-> Append(acc.resolved, ResolvedReference(nodeUuid, row, sourceTargetSheets)),
                   warnings |-> acc.warnings \o RowWarnings(row, sourceTargetSheets),
                   seen |-> acc.seen \cup {DedupeKey(row)}]
       IN ResolveLoop(Tail(rows), nodeUuid, sourceTargetSheets, next)

\* The report when the source query returned no row.
SourceNotFoundReport(call) ==
  [command |-> "reference-resolve", uuid |-> call.id, limit |-> call.limit, found |-> FALSE,
   resolved_references |-> <<>>, count |-> 0,
   warnings |-> <<[type |-> "source_not_found", message |-> "No source node found for uuid."]>>]

\* The report built from the source row and the rows of the traversal.
ResolveReport(call, source, referenceRows) ==
  LET acc == ResolveLoop(referenceRows, call.id, SourceTargetSheets(source),
                         [resolved |-> <<>>, warnings |-> <<>>, seen |-> {}])
      isCallout == \E i \in 1..Len(SourceLabels(source)) : SourceLabels(source)[i] = JStr(Callout)
  IN [command |-> "reference-resolve", uuid |-> call.id, limit |-> call.limit, found |-> TRUE,
      resolved_references |-> acc.resolved,
      count |-> Len(acc.resolved),
      warnings |->
        acc.warnings
        \o (IF ~isCallout
            THEN <<[type |-> "source_not_callout",
                    message |-> "Source node is not labeled Callout; references may still exist."]>>
            ELSE <<>>)
        \o (IF Len(acc.resolved) = 0
            THEN <<[type |-> "no_outgoing_references",
                    message |-> "No outgoing REFERENCES edges found for this source node."]>>
            ELSE <<>>)]

ReferenceResolve(uuid, options) ==
  /\ ReportBegin("referenceResolve", "uuid", uuid, ClampLimit(options, 100), "source")
  /\ UNCHANGED <<ingestVars, jobVars, reqVars, resVars>>

\* From the settling of the source query: its rows are read at once, and
\* without a source row the call returns.
ReferenceSourceQueried(resp) ==
  LET log == Answered(dq, resp)
  IN /\ dpc = "querying"
     /\ dcall.op = "referenceResolve"
     /\ Len(dq) = 1
     /\ IF RequestResult(resp).threw
        THEN dq' = log /\ dpc' = "done" /\ dout' = ReportThrew(RequestResult(resp).err)
        ELSE IF SomePayloadUndefined(log)
        THEN dq' = log /\ dpc' = "done" /\ dout' = ReportThrew(PropertyOfUndefined)
        ELSE IF Len(RowsOf(log, 1)) = 0
        THEN dq' = log /\ dpc' = "done" /\ dout' = ReportGave(SourceNotFoundReport(dcall))
        ELSE dq' = Append(log, CypherRequest("references")) /\ UNCHANGED <<dpc, dout>>
     /\ UNCHANGED <<dcall, ingestVars, jobVars, reqVars, resVars>>

\* From the settling of the traversal query to the return.
ReferencesQueried(resp) ==
  LET log == Answered(dq, resp)
  IN /\ dpc = "querying"
     /\ dcall.op = "referenceResolve"
     /\ Len(dq) = 2
     /\ dq' = log
     /\ dpc' = "done"
     /\ dout' = IF RequestResult(resp).threw THEN ReportThrew(RequestResult(resp).err)
                ELSE IF SomePayloadUndefined(log) THEN ReportThrew(PropertyOfUndefined)
                ELSE ReportGave(ResolveReport(dcall, RowsOf(log, 1)[1], RowsOf(log, 2)))
     /\ UNCHANGED <<dcall, ingestVars, jobVars, reqVars, resVars>>

\* ------------------------------------------------------ StruAI.request calls
\* One call of request(), from its fetch() to its return or throw.  The
\* call is at "fetch" (awaiting fetch), at "errorBody" (awaiting
\* response.json() of a non-2xx response), at "text" (awaiting
\* response.text()), or "settled".  Its timer is "armed", "cleared"
\* (clearTimeout in `finally`) or "fired".  `resp` is what fetch settled
\* with, `body` whether the body was read: "unread", "read", "broken" (the
\* connection failed under it) or "aborted".
NotSettled == [threw |-> FALSE, err |-> NoError, value |-> [kind |-> "pending"]]

NewCall ==
  [pc |-> "fetch", timer |-> "armed", resp |-> FetchPending, body |-> "unread", out |-> NotSettled]

\* What fetch() can resolve or reject with while the timer has not fired.
RequestFetches ==
  (FailedFetches \ { FetchRejected("abort") })
    \cup HollowFetches
    \cup { FetchResponse(400, "Bad Request", JsonBody(ErrorJson(Undefined, "E_CODE"))),
           FetchResponse(502, "Bad Gateway", EmptyBody),
           FetchResponse(200, "OK", JsonBody(OtherJson)) }

\* Variant of ClearTimeout: the timer is left as it is.
ClearTimeoutNever(timer) == timer

\* `finally { clearTimeout(timeoutId) }`: a timer that has not fired is
\* cleared.
ClearTimeout(timer) == IF timer = "armed" THEN "cleared" ELSE timer

Settle(call, out) ==
  [call EXCEPT !.pc = "settled", !.out = out, !.timer = ClearTimeout(call.timer)]

\* The error of a non-2xx response whose body could not be read or parsed:
\* the `catch {}` around response.json() leaves the status text and no code.
BareAPIError(resp) == Thrown(APIError(<<resp.statusText>>, resp.status, Undefined))

\* request() is called: the timer is armed and fetch() is called.
Request ==
  /\ Len(rq) < MaxCalls
  /\ rq' = Append(rq, NewCall)
  /\ wire' = Append(wire, 1)
  /\ UNCHANGED <<ingestVars, jobVars, docVars, resVars>>

\* fetch() settles: it rejects (network failure), or resolves with the
\* response's status line; a non-2xx response goes on to read the error
\* body, a 204 returns, any other goes on to read the text.
FetchSettles(i, resp) ==
  /\ i \in 1..Len(rq)
  /\ rq[i].pc = "fetch"
  /\ LET call == [rq[i] EXCEPT !.resp = resp]
     IN rq' = [rq EXCEPT ![i] =
                 IF resp.net # "ok" THEN Settle(call, RequestResult(resp))
                 ELSE IF ~ResponseOk(resp) THEN [call EXCEPT !.pc = "errorBody"]
                 ELSE IF resp.status = 204 THEN Settle(call, RequestResult(resp))
                 ELSE [call EXCEPT !.pc = "text"]]
  /\ UNCHANGED <<wire, ingestVars, jobVars, docVars, resVars>>

\* The body arrives: response.json() or response.text() settles, and the
\* call ends as request() maps the response.  A body that breaks off makes
\* either reject: the rejection of json() is swallowed, that of text() is
\* thrown.
BodySettles(i, intact) ==
  /\ i \in 1..Len(rq)
  /\ rq[i].pc \in {"errorBody", "text"}
  /\ LET call == [rq[i] EXCEPT !.body = IF intact THEN "read" ELSE "broken"]
     IN rq' = [rq EXCEPT ![i] =
                 IF intact THEN Settle(call, RequestResult(call.resp))
                 ELSE IF call.pc = "errorBody" THEN Settle(call, BareAPIError(call.resp))
                 ELSE Settle(call, RequestResult(FetchRejected("error")))]
  /\ UNCHANGED <<wire, ingestVars, jobVars, docVars, resVars>>

\* The timer of call i fires: controller.abort() makes what the call is
\* awaiting reject with an AbortError.
AbortTimerFires(i) ==
  /\ i \in 1..Len(rq)
  /\ rq[i].timer = "armed"
  /\ rq[i].pc # "settled"
  /\ LET call == [rq[i] EXCEPT !.timer = "fired",
                               !.body = IF rq[i].pc = "fetch" THEN "unread" ELSE "aborted"]
     IN rq' = [rq EXCEPT ![i] =
                 IF call.pc = "errorBody" THEN Settle(call, BareAPIError(call.resp))
                 ELSE Settle(call, RequestResult(FetchRejected("abort")))]
  /\ UNCHANGED <<wire, ingestVars, jobVars, docVars, resVars>>

\* ------------------------------------------------------- the client's baseUrl
\* A URL is written as a sequence of pieces: a scheme with its `//`, a host,
\* a port, then `/` and path segments, and a query at the end.
Schemes == { "http://", "https://" }

PortPieces == { ":80", ":443", ":8000" }

DEFAULT_BASE_URL == <<"https://", "api.stru.ai">>

\* text.replace(/\/$/, ''): one slash at the end is removed.
StripSlash(text) ==
  IF text # <<>> /\ text[Len(text)] = "/" THEN SubSeq(text, 1, Len(text) - 1) ELSE text

\* new URL(text) throws unless the text starts with a scheme and a host.
UrlParses(text) == Len(text) >= 2 /\ text[1] \in Schemes

UrlPort(text) == IF Len(text) >= 3 /\ text[3] \in PortPieces THEN <<text[3]>> ELSE <<>>

UrlAfterAuthority(text) == SubSeq(text, 3 + Len(UrlPort(text)), Len(text))

UrlSearch(text) ==
  LET rest == UrlAfterAuthority(text)
  IN IF rest # <<>> /\ rest[Len(rest)] = "?q" THEN <<"?q">> ELSE <<>>

\* URL.pathname: the path as written, and `/` when none is written.
Pathname(text) ==
  LET rest == UrlAfterAuthority(text)
      path == SubSeq(rest, 1, Len(rest) - Len(UrlSearch(text)))
  IN IF path = <<>> THEN <<"/">> ELSE path

\* The URL parser writes the host in lower case.
LowerHost(host) == IF host = "H" THEN "h" ELSE host

DefaultPort(scheme) == IF scheme = "http://" THEN <<":80">> ELSE <<":443">>

\* URL.toString() of the parsed text with its pathname replaced: lower-case
\* host, no default port, the query kept.
UrlToString(text, pathname) ==
  <<text[1], LowerHost(text[2])>>
    \o (IF UrlPort(text) = DefaultPort(text[1]) THEN <<>> ELSE UrlPort(text))
    \o pathname
    \o UrlSearch(text)

\* Variant of EndsWithV1: `/v1` is appended whatever the end.
EndsWithV1Never(text) == FALSE

\* text.endsWith('/v1')
EndsWithV1(text) ==
  Len(text) >= 2 /\ text[Len(text) - 1] = "/" /\ text[Len(text)] = "v1"

NormalizeBaseUrl(raw) ==
  LET trimmed == StripSlash(raw)
  IN IF UrlParses(trimmed)
     THEN LET path == StripSlash(Pathname(trimmed))
          IN IF path = <<>> \/ path = <<"/">>
             THEN StripSlash(UrlToString(trimmed, <<"/", "v1">>))
             ELSE trimmed
     ELSE IF EndsWithV1(trimmed) THEN trimmed ELSE trimmed \o <<"/", "v1">>

\* new StruAI({ apiKey, baseUrl })
NewStruAI(baseUrl) ==
  /\ client' = [configured |-> baseUrl, baseUrl |-> NormalizeBaseUrl(baseUrl)]
  /\ UNCHANGED <<mpc, mcall, mnet, mout, ingestVars, jobVars, docVars, reqVars>>

\* ------------------------------------------------- resource methods by id
\* The project a ProjectInstance was opened for.
ProjectId == <<"p", "1">>

\* An optional text option: absent, or a text.
NoText == [given |-> FALSE, text |-> <<>>]
Text(t) == [given |-> TRUE, text |-> t]

\* Variant of OrElse: the fallback whatever the option.
OrElseFallback(option, fallback) == fallback

\* option ?? fallback
OrElse(option, fallback) == IF option.given THEN option.text ELSE fallback

\* URLSearchParams.toString(): a space is written as `+`.
UrlEncode(text) == [k \in 1..Len(text) |-> IF text[k] = " " THEN "+" ELSE text[k]]

\* String.prototype.toLowerCase, on the direction words.
ToLowerCase(word) ==
  CASE word = "IN" -> "in"
    [] word = "OUT" -> "out"
    [] word = "BOTH" -> "both"
    [] OTHER -> word

\* A request handed to client.request: its method, the route of its path,
\* the text placed in the path, query string or JSON body, and a second
\* parameter where the route has one.
HttpRequest(verb, route, arg, extra) ==
  [verb |-> verb, route |-> route, arg |-> arg, extra |-> extra, answer |-> FetchPending]

\* new ProjectInstance(client, { id, name: options?.name ?? id, ... })
ProjectInstance(id, name) == [kind |-> "project", id |-> id, name |-> name]

\* A resource method up to its first await: it throws, or hands its one
\* request to client.request.
ResourceBegin(method, given, throws, err, request) ==
  /\ mpc = "idle"
  /\ mcall' = [method |-> method, given |-> given, name |-> NoText]
  /\ IF throws
     THEN /\ mpc' = "done"
          /\ mout' = Threw("validate", err)
          /\ UNCHANGED mnet
     ELSE /\ mpc' = "requesting"
          /\ mnet' = Append(mnet, request)
          /\ UNCHANGED mout
  /\ UNCHANGED <<client, ingestVars, jobVars, docVars, reqVars>>

\* docquery.nodeGet(uuid)
NodeGet(uuid) ==
  ResourceBegin("docquery.nodeGet", uuid, RequireTextThrows(uuid), RequiredError("uuid"),
                HttpRequest("GET", "projects/{id}/docquery/node-get",
                            UrlEncode(RequireText(uuid)), <<>>))

\* docquery.sheetEntities(sheetId)
SheetEntities(sheetId) ==
  ResourceBegin("docquery.sheetEntities", sheetId, RequireTextThrows(sheetId),
                RequiredError("sheet_id"),
                HttpRequest("GET", "projects/{id}/docquery/sheet-entities",
                            UrlEncode(RequireText(sheetId)), <<>>))

\* docquery.search(query, { index })
Search(query, index) ==
  LET indexText == OrElse(index, <<"entity_search">>)
  IN ResourceBegin("docquery.search", query,
                   RequireTextThrows(query) \/ RequireTextThrows(indexText),
                   IF RequireTextThrows(query) THEN RequiredError("query")
                   ELSE RequiredError("index"),
                   HttpRequest("GET", "projects/{id}/docquery/search",
                               UrlEncode(RequireText(query)), UrlEncode(RequireText(indexText))))

\* docquery.neighbors(uuid, { direction })
Neighbors(uuid, direction) ==
  LET word == ToLowerCase(IF direction = Undefined THEN "both" ELSE direction)
  IN ResourceBegin("docquery.neighbors", uuid,
                   RequireTextThrows(uuid) \/ word \notin {"in", "out", "both"},
                   IF RequireTextThrows(uuid) THEN RequiredError("uuid")
                   ELSE PlainError("direction must be one of: in, out, both"),
                   HttpRequest("GET", "projects/{id}/docquery/neighbors",
                               UrlEncode(RequireText(uuid)), <<word>>))

\* docquery.cypher(query)
Cypher(query) ==
  ResourceBegin("docquery.cypher", query, RequireTextThrows(query), RequiredError("query"),
                HttpRequest("POST", "projects/{id}/docquery/cypher", RequireText(query), <<>>))

\* projects.open(projectId, { name }): no await in it
ProjectsOpen(projectId, name) ==
  /\ mpc = "idle"
  /\ mcall' = [method |-> "projects.open", given |-> projectId, name |-> name]
  /\ mpc' = "done"
  /\ mout' = IF RequireTextThrows(projectId)
             THEN Threw("validate", RequiredError("project_id"))
             ELSE Gave(ProjectInstance(RequireText(projectId),
                                       OrElse(name, RequireText(projectId))))
  /\ UNCHANGED <<mnet, client, ingestVars, jobVars, docVars, reqVars>>

\* projects.delete(projectId)
ProjectsDelete(projectId) ==
  ResourceBegin("projects.delete", projectId, RequireTextThrows(projectId),
                RequiredError("project_id"),
                HttpRequest("DELETE", "projects/{id}", RequireText(projectId), <<>>))

\* sheets.delete(sheetId)
SheetsDelete(sheetId) ==
  ResourceBegin("sheets.delete", sheetId, FALSE, NoError,
                HttpRequest("DELETE", "projects/{id}/sheets/{sheet}", sheetId, <<>>))

\* drawings.checkCache(fileHash)
DrawingsCheckCache(fileHash) ==
  ResourceBegin("drawings.checkCache", fileHash, FALSE, NoError,
                HttpRequest("GET", "drawings/cache/{hash}", fileHash, <<>>))

\* drawings.get(drawingId)
DrawingsGet(drawingId) ==
  ResourceBegin("drawings.get", drawingId, FALSE, NoError,
                HttpRequest("GET", "drawings/{id}", drawingId, <<>>))

\* drawings.delete(drawingId)
DrawingsDelete(drawingId) ==
  ResourceBegin("drawings.delete", drawingId, FALSE, NoError,
                HttpRequest("DELETE", "drawings/{id}", drawingId, <<>>))

\* What the one request of a resource method can settle with.
ResourceFetches ==
  IF mpc = "requesting"
  THEN FailedFetches \cup HollowFetches \cup { FetchResponse(200, "OK", JsonBody(OtherJson)) }
  ELSE {}

\* The request settles: the method returns what request() returns and
\* throws what it throws.
ResourceSettles(resp) ==
  /\ mpc = "requesting"
  /\ mpc' = "done"
  /\ mnet' = Answered(mnet, resp)
  /\ mout' = IF RequestResult(resp).threw
             THEN Threw("request", RequestResult(resp).err)
             ELSE Gave(RequestResult(resp).value)
  /\ UNCHANGED <<mcall, client, ingestVars, jobVars, docVars, reqVars>>

ResInit ==
  /\ mpc = "idle"
  /\ mcall = [method |-> "", given |-> <<>>, name |-> NoText]
  /\ mnet = <<>>
  /\ mout = NoOutcome
  /\ client = [configured |-> DEFAULT_BASE_URL, baseUrl |-> NormalizeBaseUrl(DEFAULT_BASE_URL)]

DocInit ==
  /\ dpc = "idle"
  /\ dcall = DocCall("", <<>>, <<>>, 0)
  /\ dq = <<>>
  /\ dout = NoReport

ReqInit ==
  /\ rq = <<>>
  /\ wire = <<>>

Init == IngestInit /\ JobInit /\ DocInit /\ ReqInit /\ ResInit

\* --- sheets.add and drawings.analyze
SpecIngest == Init /\ [][IngestNext]_vars

\* --- one Job.wait
WaitNext ==
  \/ \E id \in JobIds, o \in WaitOptions : JobWait(id, o)
  \/ \E i \in 1..Len(jobs), d \in 0..MaxReqMs :
       \E resp \in StatusFetches(jobs[i]) : StatusSettles(i, resp, d)
  \/ \E i \in 1..Len(jobs), late \in 0..MaxLateMs : TimerFires(i, late)

SpecWait == Init /\ [][WaitNext]_vars

\* Every request settles (the transport's own timer aborts it at the latest)
\* and every timer fires.
FairSpecWait ==
  /\ SpecWait
  /\ WF_vars(\E i \in 1..Len(jobs), d \in 0..MaxReqMs :
               \E resp \in StatusFetches(jobs[i]) : StatusSettles(i, resp, d))
  /\ WF_vars(\E i \in 1..Len(jobs), late \in 0..MaxLateMs :
               TimerFires(i, late))

\* --- JobBatch.statusAll and JobBatch.waitAll
Batches == InjSeqs(JobIds, MaxBatch)

BatchOptions == [timeoutMs : {0, MaxTimeoutMs}, pollIntervalMs : {MaxPollMs}]

BatchNext ==
  \/ \E ids \in Batches, o \in BatchOptions : WaitAll(ids, o)
  \/ \E ids \in Batches : StatusAll(ids)
  \/ \E i \in 1..Len(jobs), d \in {0, MaxReqMs} :
       \E resp \in BatchStatusFetches(jobs[i]) : StatusSettles(i, resp, d)
  \/ \E i \in 1..Len(jobs) : TimerFires(i, 0)
  \/ \E i \in 1..Len(jobs), d \in {0, MaxReqMs} :
       \E resp \in BatchStatusFetches(jobs[i]) : StatusAllSettles(i, resp, d)

SpecBatch == Init /\ [][BatchNext]_vars

\* --- docquery.sheetSummary
SheetIdTexts == { S111, <<" ">> \o S111 \o <<" ">>, <<" ", " ">>, <<>> }

OrphanLimits == { NoLimit, Limit(0), Limit(500) }

SummaryNext ==
  \/ \E id \in SheetIdTexts, o \in OrphanLimits : SheetSummary(id, o)
  \/ \E resp \in SummaryFetches(AwaitedQuery) : SheetSummaryQueried(resp)

SpecSummary == Init /\ [][SummaryNext]_vars

\* --- docquery.sheetList
ListNext ==
  \/ SheetList
  \/ \E resp \in ListFetches(AwaitedQuery) : SheetListQueried(resp)

SpecSheetList == Init /\ [][ListNext]_vars

\* --- docquery.referenceResolve
NodeUuidTexts == { <<"u", "0">>, <<" ">> }

ResolveLimits == { NoLimit, Limit(500) }

ResolveNext ==
  \/ \E uuid \in NodeUuidTexts, o \in ResolveLimits : ReferenceResolve(uuid, o)
  \/ \E resp \in ResolveFetches(AwaitedQuery) : ReferenceSourceQueried(resp)
  \/ \E resp \in ResolveFetches(AwaitedQuery) : ReferencesQueried(resp)

SpecResolve == Init /\ [][ResolveNext]_vars

\* --- StruAI.request
RequestNext ==
  \/ Request
  \/ \E i \in 1..Len(rq), resp \in RequestFetches : FetchSettles(i, resp)
  \/ \E i \in 1..Len(rq), intact \in BOOLEAN : BodySettles(i, intact)
  \/ \E i \in 1..Len(rq) : AbortTimerFires(i)

SpecRequest == Init /\ [][RequestNext]_vars

\* --- every request the client makes: plain calls of request(), or the
\* status polls of one Job.wait
RequestsOnly == jmode = "idle" /\ Request

WaitOnly(id, o) == rq = <<>> /\ JobWait(id, o)

RetryNext ==
  \/ RequestsOnly
  \/ \E i \in 1..Len(rq), resp \in RequestFetches : FetchSettles(i, resp)
  \/ \E i \in 1..Len(rq), intact \in BOOLEAN : BodySettles(i, intact)
  \/ \E i \in 1..Len(rq) : AbortTimerFires(i)
  \/ \E id \in JobIds, o \in WaitOptions : WaitOnly(id, o)
  \/ \E i \in 1..Len(jobs), d \in 0..MaxReqMs :
       \E resp \in StatusFetches(jobs[i]) : StatusSettles(i, resp, d)
  \/ \E i \in 1..Len(jobs), late \in 0..MaxLateMs : TimerFires(i, late)

SpecRetry == Init /\ [][RetryNext]_vars

\* --- the resource methods that take an identifier or a text; the report
\* calls of DocQuery are followed here up to a failure of their first query
ArgTexts == { <<"u", "0">>, <<" ", "u", " ", "0", " ">>, <<" ">>, <<>> }

TextOptions == { NoText, Text(<<"n">>), Text(<<>>) }

Directions == { Undefined, "in", "OUT", "up" }

ResourceNext ==
  \/ dpc = "idle" /\ \E uuid \in ArgTexts : NodeGet(uuid)
  \/ dpc = "idle" /\ \E sheetId \in ArgTexts : SheetEntities(sheetId)
  \/ dpc = "idle" /\ \E query \in ArgTexts, index \in TextOptions : Search(query, index)
  \/ dpc = "idle" /\ \E uuid \in ArgTexts, direction \in Directions : Neighbors(uuid, direction)
  \/ dpc = "idle" /\ \E query \in ArgTexts : Cypher(query)
  \/ dpc = "idle" /\ \E projectId \in ArgTexts, name \in TextOptions : ProjectsOpen(projectId, name)
  \/ dpc = "idle" /\ \E projectId \in ArgTexts : ProjectsDelete(projectId)
  \/ dpc = "idle" /\ \E sheetId \in ArgTexts : SheetsDelete(sheetId)
  \/ dpc = "idle" /\ \E fileHash \in ArgTexts : DrawingsCheckCache(fileHash)
  \/ dpc = "idle" /\ \E drawingId \in ArgTexts : DrawingsGet(drawingId)
  \/ dpc = "idle" /\ \E drawingId \in ArgTexts : DrawingsDelete(drawingId)
  \/ \E resp \in ResourceFetches : ResourceSettles(resp)
  \/ mpc = "idle" /\ \E sheetId \in ArgTexts : SheetSummary(sheetId, NoLimit)
  \/ mpc = "idle" /\ \E uuid \in ArgTexts : ReferenceResolve(uuid, NoLimit)
  \/ SheetSummaryQueried(FetchRejected("error"))
  \/ ReferenceSourceQueried(FetchRejected("error"))

SpecResource == Init /\ [][ResourceNext]_vars

\* --- new StruAI({ baseUrl })
MaxPathLen == 4

PathPieces == { "/", "v1", "api" }

\* Paths as they can be written: every segment follows a slash.
Paths ==
  UNION { { p \in [1..n -> PathPieces] :
              \A k \in 1..n : p[k] # "/" => (k > 1 /\ p[k - 1] = "/") } : n \in 0..MaxPathLen }

\* Base URLs a caller can configure: with a scheme (and then perhaps a port
\* and a query), or a bare host with a path.
BaseUrls ==
  { <<"http://", host>> \o port \o path \o query :
      host \in {"h", "H"}, port \in {<<>>, <<":80">>, <<":8000">>},
      path \in Paths, query \in {<<>>, <<"?q">>} }
    \cup { <<host>> \o path : host \in {"h", "H"}, path \in Paths }

\* A client is made with a base URL, or with the baseUrl of the client
\* there is.
ClientNext ==
  \/ \E baseUrl \in BaseUrls : NewStruAI(baseUrl)
  \/ NewStruAI(client.baseUrl)

SpecClient == Init /\ [][ClientNext]_vars

\* ================================================================== claims
\* ------------------------------------------- sheets.add, drawings.analyze

\* A selector that names one page: a number, or text that is one number.
SinglePage(page) == page.isNumber \/ IsDigits(Trim(page.text))

SheetsReturned == ipc = "done" /\ icall.api = "sheets" /\ iout.kind = "returned"

\* The job descriptors of the server's answer to the submit request.
ServerJobs ==
  LET a == net[Len(net)].answer
  IN IF a.body.fmt = "json" /\ a.body.val.kind = "jobs" THEN a.body.val.jobs ELSE <<>>

ServerIds == [i \in 1..Len(ServerJobs) |-> ServerJobs[i].job_id]

\* C1 as stated: a single-page sheets.add returns a single Job, whatever job
\* list the server's response contains.
C1_SinglePageAlwaysJob ==
  (SheetsReturned /\ SinglePage(icall.page)) => iout.value.type = "Job"

\* C1, amended: a single-page sheets.add returns a single Job exactly when
\* the response holds exactly one job descriptor; otherwise it returns a
\* JobBatch of all the descriptors, so a JobBatch of size 1 is never returned.
C1_JobIffOneDescriptor ==
  (SheetsReturned /\ SinglePage(icall.page)) =>
    /\ (iout.value.type = "Job") <=> (Len(ServerJobs) = 1)
    /\ iout.value.type \in {"Job", "JobBatch"}
    /\ iout.value.type = "JobBatch" =>
         /\ Len(iout.value.jobs) = Len(ServerJobs)
         /\ Len(iout.value.jobs) # 1

C1_Witness ==
  /\ SheetsReturned /\ SinglePage(icall.page)
  /\ Len(ServerJobs) = 1
  /\ iout.value.type = "Job"

\* C2 as stated: a multi-page sheets.add answered with N job descriptors
\* returns a JobBatch whose ids is the server's id list, for every N.
C2_MultiPageAlwaysBatch ==
  (SheetsReturned /\ ~SinglePage(icall.page)) =>
    /\ iout.value.type = "JobBatch"
    /\ JobBatchIds(iout.value) = ServerIds

\* C2, amended: a multi-page sheets.add answered with N job descriptors
\* returns, for N # 1, a JobBatch whose ids is the server's id list in the
\* same order, and for N = 1 the single Job with the server's id.
C2_BatchIdsUnlessOne ==
  (SheetsReturned /\ ~SinglePage(icall.page)) =>
    IF Len(ServerJobs) = 1
    THEN iout.value.type = "Job" /\ iout.value.id = ServerIds[1]
    ELSE iout.value.type = "JobBatch" /\ JobBatchIds(iout.value) = ServerIds

C2_Witness ==
  /\ SheetsReturned /\ ~SinglePage(icall.page)
  /\ ServerIds = <<"job_2", "job_1">>
  /\ iout.value.type = "JobBatch"
  /\ JobBatchIds(iout.value) = <<"job_2", "job_1">>

\* What the caller supplied.
FileSupplied == icall.given.file \notin {Null, ""}

HashSupplied == icall.given.fileHash \notin {Undefined, ""}

\* C6: analyze or add called with both a file and a file hash ends in the
\* validation error, with no request issued at all.
C6_BothRejectedBeforeNetwork ==
  (ipc # "idle" /\ FileSupplied /\ HashSupplied) =>
    /\ ipc = "done"
    /\ iout.kind = "threw"
    /\ iout.at = "validate"
    /\ iout.err = PlainError("Provide file or fileHash, not both.")
    /\ net = <<>>

C6_Witness ==
  /\ ipc = "done" /\ icall.given.file = "a.pdf" /\ icall.given.fileHash = "hash_given"
  /\ iout.kind = "threw"
  /\ net = <<>>

Carries(req, field) == req[field] # Undefined

ReportsCached(answer) ==
  /\ answer.net = "ok" /\ answer.status = 200
  /\ answer.body.fmt = "json" /\ answer.body.val.kind = "cache"
  /\ answer.body.val.cached

\* C7: with a file and no hash, the submit request comes only after the
\* answered cache probe for the file's content hash; it carries file_hash
\* alone if the probe reported cached and the file alone otherwise.  Every
\* submit request of any call carries exactly one of file and file_hash.
C7_ProbeThenUpload ==
  /\ \A k \in 1..Len(net) :
       net[k].kind = "submit" =>
         /\ Carries(net[k], "file") # Carries(net[k], "file_hash")
         /\ k = Len(net)
  /\ (FileSupplied /\ ~HashSupplied /\ Len(net) > 0) =>
       /\ net[1].kind = "probe"
       /\ net[1].file_hash = ComputeFileHash(icall.given.file)
       /\ Len(net) <= 2
       /\ Len(net) = 2 =>
            /\ net[2].kind = "submit"
            /\ net[1].answer # FetchPending
            /\ IF ReportsCached(net[1].answer)
               THEN net[2].file_hash = net[1].file_hash /\ ~Carries(net[2], "file")
               ELSE net[2].file = icall.given.file /\ ~Carries(net[2], "file_hash")
  /\ (HashSupplied /\ ~FileSupplied /\ Len(net) > 0) =>
       /\ Len(net) = 1
       /\ net[1].kind = "submit"
       /\ net[1].file_hash = icall.given.fileHash

C7_Witness ==
  /\ ipc = "done" /\ iout.kind = "returned"
  /\ icall.given.file = "b.pdf" /\ ~HashSupplied
  /\ Len(net) = 2
  /\ ReportsCached(net[1].answer)
  /\ net[2].file_hash = "hash_of_b"

ProbeFailed ==
  /\ Len(net) > 0
  /\ net[1].kind = "probe"
  /\ \/ net[1].answer.net \in {"error", "abort"}
     \/ net[1].answer.net = "ok" /\ ~ResponseOk(net[1].answer)

\* C8: a failed cache probe (network error, abort, non-2xx) is swallowed:
\* its error is never raised to the caller, and the call goes on to submit
\* the file.
C8_ProbeFailsOpen ==
  ProbeFailed =>
    /\ ~(iout.kind = "threw" /\ iout.at = "probe")
    /\ ~ParsePageThrows(icall.page) =>
         /\ Len(net) = 2
         /\ net[2].kind = "submit"
         /\ net[2].file = icall.given.file

\* ----------------------------------------------------------------- Job.wait
Range(f) == { f[k] : k \in DOMAIN f }

NumberOf(trace, ev) == Cardinality({ k \in 1..Len(trace) : trace[k].ev = ev })

Waiting == jmode \in {"wait", "waitAll"}

\* C3: once a status poll of a wait() reports `failed`, that poll is the last
\* thing the wait() does (no further request, no sleep), and the wait() has
\* raised an APIError whose message holds the job id and the server's error
\* string.
C3_FailedRaisesWithoutRetry ==
  Waiting =>
    \A i \in 1..Len(jobs) :
      \A k \in 1..Len(member[i].trace) :
        member[i].trace[k] = Event("status", "failed") =>
          /\ k = Len(member[i].trace)
          /\ member[i].pc = "rejected"
          /\ member[i].err.type = "APIError"
          /\ jobs[i] \in Range(member[i].err.message)
          /\ member[i].status.error \in Range(member[i].err.message)

C3_Witness ==
  /\ jmode = "wait"
  /\ member[1].pc = "rejected"
  /\ Len(member[1].trace) = 5
  /\ member[1].trace[5] = Event("status", "failed")
  /\ member[1].status.error = "out of memory"
  /\ member[1].err.message = <<"Job ", jobs[1], " failed: ", "out of memory">>

TimedOut(i) ==
  /\ i \in 1..Len(jobs)
  /\ member[i].pc = "rejected"
  /\ member[i].err = JobTimeoutError(jobs[i], opts.timeoutMs)

\* Some poll was answered with something other than the status `running`.
SawOtherThanRunning(i) ==
  /\ i \in 1..Len(jobs)
  /\ \E k \in 1..Len(member[i].trace) :
       \/ member[i].trace[k].ev = "error"
       \/ member[i].trace[k].ev = "status" /\ member[i].trace[k].arg # "running"

\* C4: the timeout error of wait() is raised only once at least timeoutMs
\* have elapsed since the call, and a wait() whose every status poll reports
\* `running` eventually raises it.
C4_RunningJobTimesOut ==
  /\ [](jmode = "wait" /\ TimedOut(1) => member[1].endedAt - member[1].start >= opts.timeoutMs)
  /\ (jmode = "wait") ~> (SawOtherThanRunning(1) \/ TimedOut(1))

C4_Witness ==
  /\ jmode = "wait"
  /\ TimedOut(1)
  /\ opts.timeoutMs = MaxTimeoutMs
  /\ NumberOf(member[1].trace, "status") >= 2
  /\ ~SawOtherThanRunning(1)

\* C5: a wait() whose first status poll reports `complete` has returned the
\* result embedded in that response, after exactly one status request and
\* without any sleep.
C5_CompleteAtOnceReturnsResult ==
  Waiting =>
    \A i \in 1..Len(jobs) :
      (Len(member[i].trace) >= 2 /\ member[i].trace[2] = Event("status", "complete")) =>
        /\ member[i].pc = "resolved"
        /\ NumberOf(member[i].trace, "request") = 1
        /\ NumberOf(member[i].trace, "sleep") = 0
        /\ member[i].status.hasResult => member[i].value = SheetResult(jobs[i])

C5_Witness ==
  /\ jmode = "wait"
  /\ member[1].pc = "resolved"
  /\ member[1].trace = <<Event("request", ""), Event("status", "complete")>>
  /\ member[1].value = SheetResult(jobs[1])

\* ----------------------------------------------------------------- JobBatch
Batching == jmode \in {"waitAll", "statusAll"}

\* The result that belongs to the job at position i.
BelongsTo(value, i) ==
  IF jmode = "waitAll" THEN value = SheetResult(jobs[i])
  ELSE value.kind = "status" /\ value.job_id = jobs[i]

\* C9: in statusAll and waitAll no member has received an answer before every
\* member's first status request is issued, and when all members succeed the
\* i-th element of the result is the result of the i-th job, whatever the
\* order in which the members finished.
C9_ConcurrentAndInOrder ==
  Batching =>
    /\ \A i, j \in 1..Len(jobs) :
         Len(member[i].trace) >= 2 =>
           (Len(member[j].trace) >= 1 /\ member[j].trace[1] = Event("request", ""))
    /\ pall.state = "fulfilled" =>
         /\ Len(pall.values) = Len(jobs)
         /\ \A i \in 1..Len(jobs) :
              /\ member[i].pc = "resolved"
              /\ pall.values[i] = member[i].value
              /\ BelongsTo(pall.values[i], i)

C9_Witness ==
  /\ jmode = "waitAll"
  /\ pall.state = "fulfilled"
  /\ order = <<2, 1>>
  /\ pall.values = <<SheetResult(jobs[1]), SheetResult(jobs[2])>>

\* The positions of the members whose wait() has failed, in order of failure.
RECURSIVE FailuresIn(_)
FailuresIn(o) ==
  IF o = <<>> THEN <<>>
  ELSE (IF member[Head(o)].pc = "rejected" THEN <<Head(o)>> ELSE <<>>) \o FailuresIn(Tail(o))

\* C10: as soon as a member's wait() has failed, waitAll has failed, with the
\* error of the member that failed first in time, and it never yields results,
\* whichever members completed.
C10_FirstFailureWins ==
  jmode = "waitAll" =>
    LET failures == FailuresIn(order)
    IN IF failures = <<>> THEN pall.state \in {"pending", "fulfilled"}
       ELSE /\ pall.state = "rejected"
            /\ pall.from = failures[1]
            /\ pall.err = member[failures[1]].err

C10_Witness ==
  /\ jmode = "waitAll"
  /\ pall.state = "rejected"
  /\ FailuresIn(order) = <<2, 1>>
  /\ pall.from = 2
  /\ member[1].err # member[2].err

\* ------------------------------------------------------ docquery.sheetSummary
SummaryReturned == dpc = "done" /\ dcall.op = "sheetSummary" /\ dout.kind = "returned"

HasWarning(ws, type) == \E i \in 1..Len(ws) : ws[i].type = type

NoTypeTwice(ws) == \A i, j \in 1..Len(ws) : i # j => ws[i].type # ws[j].type

\* The rows the reachability query of the finished call came back with.
ReachabilityAnswer == RowsOf(dq, 4)

IsNumber(cell) == cell.t = "number"

\* C11: in every report sheetSummary returns, unreachable_non_sheet is
\* non_sheet_total - reachable_non_sheet floored at zero (the two being the
\* numbers of the reachability row when it holds numbers), and a
\* missing_sheet_node warning is present exactly when has_sheet_node is
\* false, which it is when the reachability query returns no row.
C11_UnreachableFlooredMissingIffNoNode ==
  SummaryReturned =>
    LET r == dout.report.reachability
        ws == dout.report.warnings
    IN /\ r.unreachable_non_sheet =
            (IF r.non_sheet_total - r.reachable_non_sheet > 0
             THEN r.non_sheet_total - r.reachable_non_sheet ELSE 0)
       /\ HasWarning(ws, "missing_sheet_node") <=> ~r.has_sheet_node
       /\ ReachabilityAnswer = <<>> =>
            ~r.has_sheet_node /\ r.non_sheet_total = 0 /\ r.unreachable_non_sheet = 0
       /\ \A row \in {ReachabilityAnswer[k] : k \in {1} \cap DOMAIN ReachabilityAnswer} :
            /\ IsNumber(row.non_sheet_total) => r.non_sheet_total = row.non_sheet_total.n
            /\ IsNumber(row.reachable_non_sheet) =>
                 r.reachable_non_sheet = row.reachable_non_sheet.n

\* The case of the repository's test: no sheet node, 3 non-sheet entities,
\* 1 of them reachable.
C11_Witness ==
  /\ SummaryReturned
  /\ ReachabilityAnswer = <<ReachabilityRow(JBool(FALSE), JNum(0), JNum(3), JNum(1))>>
  /\ dout.report.reachability.unreachable_non_sheet = 2
  /\ HasWarning(dout.report.warnings, "missing_sheet_node")

\* C12: the warnings of a sheetSummary report are of three types only, each
\* at most once: missing_sheet_node exactly when no sheet node was found
\* (has_sheet_node false), duplicate_sheet_nodes exactly when
\* sheet_node_count > 1, unreachable_entities exactly when
\* unreachable_non_sheet > 0; one sheet node with 3 non-sheet entities of
\* which 1 is reachable gives unreachable_non_sheet = 2 and the
\* unreachable_entities warning alone.
C12_ThreeWarningConditions ==
  SummaryReturned =>
    LET r == dout.report.reachability
        ws == dout.report.warnings
    IN /\ \A i \in 1..Len(ws) :
            ws[i].type \in {"missing_sheet_node", "duplicate_sheet_nodes", "unreachable_entities"}
       /\ NoTypeTwice(ws)
       /\ HasWarning(ws, "missing_sheet_node") <=> ~r.has_sheet_node
       /\ HasWarning(ws, "duplicate_sheet_nodes") <=> r.sheet_node_count > 1
       /\ HasWarning(ws, "unreachable_entities") <=> r.unreachable_non_sheet > 0
       /\ ReachabilityAnswer = <<ReachabilityRow(JBool(TRUE), JNum(1), JNum(3), JNum(1))>> =>
            /\ r.unreachable_non_sheet = 2
            /\ Len(ws) = 1 /\ ws[1].type = "unreachable_entities"

\* The spec's example: one sheet node, 3 non-sheet entities, 1 reachable.
C12_Witness ==
  /\ SummaryReturned
  /\ dout.report.sheet_node # NonObject
  /\ ReachabilityAnswer = <<ReachabilityRow(JBool(TRUE), JNum(1), JNum(3), JNum(1))>>
  /\ HasWarning(dout.report.warnings, "unreachable_entities")

\* --------------------------------------------------------- docquery.sheetList
ListReturned == dpc = "done" /\ dcall.op = "sheetList" /\ dout.kind = "returned"

\* The rows the four queries of the finished call came back with.
NodeAnswer == RowsOf(dq, 1)

InventoryAnswer == RowsOf(dq, 2)

DuplicateAnswer == RowsOf(dq, 3)

MissingAnswer == RowsOf(dq, 4)

\* The sheet ids among rows: the sheet_id cells that hold text with a
\* character other than white space.
IdsIn(rows) ==
  { rows[k].sheet_id.s :
      k \in { k \in DOMAIN rows :
                /\ rows[k].sheet_id.t = "string"
                /\ \E i \in DOMAIN rows[k].sheet_id.s : ~IsSpace(rows[k].sheet_id.s[i]) } }

NodesOf(id) == { k \in DOMAIN NodeAnswer : NodeAnswer[k].sheet_id = JStr(id) }

\* The entity count the inventory gives for one of its ids.
EntityCountOf(id) ==
  LET k == CHOOSE k \in DOMAIN InventoryAnswer : InventoryAnswer[k].sheet_id = JStr(id)
  IN AsInt(InventoryAnswer[k].entity_count)

MissingCount ==
  IF MissingAnswer = <<>> THEN 0 ELSE AsInt(MissingAnswer[1].missing_sheet_id_count)

EachInventoryIdMatched ==
  \A id \in IdsIn(InventoryAnswer) : Cardinality(NodesOf(id)) = 1 /\ EntityCountOf(id) > 1

\* C13 as stated: mismatch_warnings is empty exactly when every inventory
\* sheet id has exactly one matching sheet node and an entity count above 1.
C13_EmptyIffEachInventoryIdMatched ==
  ListReturned => (dout.report.mismatch_warnings = <<>> <=> EachInventoryIdMatched)

\* C13: mismatch_warnings is empty exactly when every inventory sheet id
\* has a sheet node and an entity count other than 1, every sheet-node id
\* has an inventory row, the duplicate query returned no row and the
\* missing-sheet-id count is 0.
C13_EmptyIffNoAnomaly ==
  ListReturned =>
    (dout.report.mismatch_warnings = <<>> <=>
       /\ \A id \in IdsIn(InventoryAnswer) : NodesOf(id) # {} /\ EntityCountOf(id) # 1
       /\ \A id \in IdsIn(NodeAnswer) : id \in IdsIn(InventoryAnswer)
       /\ DuplicateAnswer = <<>>
       /\ MissingCount = 0)

\* Every inventory sheet id has its one sheet node and more than one
\* entity, and still there is a warning: entities without a sheet id.
C13_Witness ==
  /\ ListReturned
  /\ IdsIn(InventoryAnswer) # {}
  /\ EachInventoryIdMatched
  /\ Len(dout.report.mismatch_warnings) = 1
  /\ dout.report.mismatch_warnings[1].type = "entities_missing_sheet_id"

\* The warning of a type, when the list has one.
WarningOf(ws, type) == ws[CHOOSE i \in 1..Len(ws) : ws[i].type = type]

\* A warning of the type is present exactly when the set is not empty, and
\* its sheet_ids lists exactly the set, each id once.
ListsExactly(ws, type, set) ==
  /\ HasWarning(ws, type) <=> set # {}
  /\ HasWarning(ws, type) =>
       /\ Range(WarningOf(ws, type).sheet_ids) = set
       /\ Len(WarningOf(ws, type).sheet_ids) = Cardinality(set)

\* C14: sheetList raises one warning record per anomaly class found and
\* none otherwise: inventory ids without sheet node, sheet-node ids without
\* inventory, sheet-node ids whose inventory count is exactly 1 (each with
\* exactly that set as sheet_ids), duplicate_sheet_nodes exactly when the
\* duplicate query returned rows, entities_missing_sheet_id exactly when
\* the missing-sheet-id count is above 0; no type occurs twice.
C14_OneWarningPerAnomalyClass ==
  ListReturned =>
    LET ws == dout.report.mismatch_warnings
        inv == IdsIn(InventoryAnswer)
        nodes == IdsIn(NodeAnswer)
    IN /\ \A i \in 1..Len(ws) :
            ws[i].type \in {"inventory_sheet_id_without_sheet_node", "sheet_node_without_inventory",
                            "sheet_nodes_without_non_sheet_entities", "duplicate_sheet_nodes",
                            "entities_missing_sheet_id"}
       /\ NoTypeTwice(ws)
       /\ ListsExactly(ws, "inventory_sheet_id_without_sheet_node", inv \ nodes)
       /\ ListsExactly(ws, "sheet_node_without_inventory", nodes \ inv)
       /\ ListsExactly(ws, "sheet_nodes_without_non_sheet_entities",
                       { id \in nodes \cap inv : EntityCountOf(id) = 1 })
       /\ HasWarning(ws, "duplicate_sheet_nodes") <=> DuplicateAnswer # <<>>
       /\ HasWarning(ws, "entities_missing_sheet_id") <=> MissingCount > 0

\* Two inventory ids without sheet node (returned as S2, S1 and listed as
\* S1, S2), together with duplicate sheet nodes and entities without id.
C14_Witness ==
  /\ ListReturned
  /\ Len(InventoryAnswer) = 2
  /\ InventoryAnswer[1].sheet_id = JStr(S2)
  /\ LET ws == dout.report.mismatch_warnings
     IN /\ Len(ws) = 3
        /\ ws[1].type = "inventory_sheet_id_without_sheet_node"
        /\ ws[1].sheet_ids = <<S1, S2>>
        /\ ws[2].type = "duplicate_sheet_nodes"
        /\ ws[3].type = "entities_missing_sheet_id"

\* -------------------------------------------------- docquery.referenceResolve
ResolveReturned ==
  dpc = "done" /\ dcall.op = "referenceResolve" /\ dout.kind = "returned" /\ dout.report.found

\* The rows the traversal query of the finished call came back with, and
\* those of them that name a relationship or a target.
TraversalAnswer == RowsOf(dq, 2)

NamedRows ==
  SelectSeq(TraversalAnswer, LAMBDA row : ~(IsNullish(row.rel_uuid) /\ IsNullish(row.target_uuid)))

SamePair(a, b) ==
  a.relationship.rel_uuid = b.relationship.rel_uuid /\ a.target.uuid = b.target.uuid

SameLocations(a, b) ==
  /\ a.target_context.located_in_1.uuid = b.target_context.located_in_1.uuid
  /\ a.target_context.located_in_2.uuid = b.target_context.located_in_2.uuid

\* C15 as stated: no two entries of resolved_references have the same
\* (relationship id, target id) pair.
C15_NoTwoEntriesOfOnePair ==
  ResolveReturned =>
    LET es == dout.report.resolved_references
    IN \A i, j \in 1..Len(es) : i # j => ~SamePair(es[i], es[j])

\* C15: no two entries of resolved_references have the same (relationship
\* id, target id, first located-in id, second located-in id); every such
\* combination among the rows that name a relationship or a target has its
\* entry, so rows that differ in a located-in id give separate entries.
C15_NoTwoEntriesOfOneKey ==
  ResolveReturned =>
    LET es == dout.report.resolved_references
    IN /\ \A i, j \in 1..Len(es) : i # j => ~(SamePair(es[i], es[j]) /\ SameLocations(es[i], es[j]))
       /\ \A k \in 1..Len(NamedRows) :
            \E i \in 1..Len(es) :
              /\ es[i].relationship.rel_uuid = NamedRows[k].rel_uuid
              /\ es[i].target.uuid = NamedRows[k].target_uuid
              /\ es[i].target_context.located_in_1.uuid = NamedRows[k].target_located_in_uuid_1
              /\ es[i].target_context.located_in_2.uuid = NamedRows[k].target_located_in_uuid_2
       /\ dout.report.count = Len(es)

\* Two rows of one relationship and one target that differ only in where
\* the target is located: both are returned.
C15_Witness ==
  /\ ResolveReturned
  /\ Len(TraversalAnswer) = 2
  /\ TraversalAnswer[1].rel_uuid # JNull
  /\ TraversalAnswer[1].target_located_in_uuid_1 # TraversalAnswer[2].target_located_in_uuid_1
  /\ [TraversalAnswer[1] EXCEPT !.target_located_in_uuid_1 = JNull, !.target_located_in_uuid_2 = JNull]
       = [TraversalAnswer[2] EXCEPT !.target_located_in_uuid_1 = JNull, !.target_located_in_uuid_2 = JNull]
  /\ Len(dout.report.resolved_references) = 2

\* The source row of the finished call, and the target sheets it declares.
SourceAnswer == RowsOf(dq, 1)[1]

DeclaredTargetSheets ==
  IF SourceAnswer.target_sheets.isArray
  THEN { StringOf(SourceAnswer.target_sheets.items[i]) : i \in DOMAIN SourceAnswer.target_sheets.items }
  ELSE {}

Present(cell) == cell.t \notin {"null", "undefined"}

MetaMismatch(e) ==
  /\ Present(e.target.sheet_id)
  /\ Present(e.relationship.meta_target_sheet)
  /\ StringOf(e.target.sheet_id) # StringOf(e.relationship.meta_target_sheet)

SourceMismatch(e) ==
  /\ Present(e.target.sheet_id)
  /\ DeclaredTargetSheets # {}
  /\ StringOf(e.target.sheet_id) \notin DeclaredTargetSheets

\* The mismatch warnings the entries call for, as <<type, relationship id>>.
RECURSIVE MismatchesOf(_)
MismatchesOf(es) ==
  IF es = <<>> THEN <<>>
  ELSE (IF MetaMismatch(Head(es))
        THEN <<(<<"meta_target_sheet_mismatch", Head(es).relationship.rel_uuid>>)>> ELSE <<>>)
       \o (IF SourceMismatch(Head(es))
           THEN <<(<<"source_target_sheets_mismatch", Head(es).relationship.rel_uuid>>)>> ELSE <<>>)
       \o MismatchesOf(Tail(es))

\* The mismatch warnings of the report, as <<type, relationship id>>.
MismatchesWarned ==
  LET ws == SelectSeq(dout.report.warnings,
                      LAMBDA w : w.type \in {"meta_target_sheet_mismatch", "source_target_sheets_mismatch"})
  IN [k \in 1..Len(ws) |-> <<ws[k].type, ws[k].rel_uuid>>]

\* C16: the mismatch warnings of a report are those its entries call for,
\* entry by entry: meta_target_sheet_mismatch when the target's sheet id
\* and the meta target sheet are both present and differ as text,
\* source_target_sheets_mismatch when the sheet id is present and the
\* source's non-empty target-sheet list lacks it; a check with an absent
\* side is null; a row dropped as a duplicate adds nothing.
C16_MismatchWarningsPerEntry ==
  ResolveReturned =>
    LET es == dout.report.resolved_references
    IN /\ MismatchesWarned = MismatchesOf(es)
       /\ Len(es) <= Len(NamedRows)
       /\ \A i \in 1..Len(es) :
            LET e == es[i]
                bothPresent == Present(e.target.sheet_id) /\ Present(e.relationship.meta_target_sheet)
                listed == Present(e.target.sheet_id) /\ DeclaredTargetSheets # {}
            IN /\ e.checks.target_sheet_matches_meta_target_sheet =
                    (IF bothPresent THEN JBool(~MetaMismatch(e)) ELSE JNull)
               /\ e.checks.target_sheet_in_source_target_sheets =
                    (IF listed THEN JBool(~SourceMismatch(e)) ELSE JNull)

\* The same row twice, its target's sheet matching neither the meta
\* target sheet nor the source's list: one entry, each warning once.
C16_Witness ==
  /\ ResolveReturned
  /\ Len(TraversalAnswer) = 2
  /\ TraversalAnswer[1] = TraversalAnswer[2]
  /\ Len(dout.report.resolved_references) = 1
  /\ Len(MismatchesWarned) = 2
  /\ MismatchesWarned[1][1] = "meta_target_sheet_mismatch"
  /\ MismatchesWarned[2][1] = "source_target_sheets_mismatch"

\* -------------------------------------------------------------- StruAI.request
SettledCalls == { i \in 1..Len(rq) : rq[i].pc = "settled" }

\* Call i got a response whose status is not 2xx.
GotNon2xx(i) == rq[i].resp.net = "ok" /\ ~ResponseOk(rq[i].resp)

\* The body of the response of call i arrived and is a JSON object with an
\* `error` member.
GotStructuredError(i) ==
  /\ rq[i].body = "read"
  /\ rq[i].resp.body.fmt = "json"
  /\ rq[i].resp.body.val.kind = "error"

\* C17: a call that got a non-2xx response throws an APIError with the
\* response's status code and returns no body; message and code are the
\* body's error.message and error.code when the body is a structured JSON
\* error (the status text standing in for a missing message), and the
\* status text and no code otherwise, also when the body cannot be read or
\* parsed.
C17_Non2xxRaisesAPIError ==
  \A i \in SettledCalls :
    GotNon2xx(i) =>
      /\ rq[i].out.threw
      /\ rq[i].out.value.kind = "none"
      /\ rq[i].out.err.type = "APIError"
      /\ rq[i].out.err.statusCode = rq[i].resp.status
      /\ IF GotStructuredError(i)
         THEN /\ rq[i].out.err.code = rq[i].resp.body.val.code
              /\ rq[i].out.err.message =
                   (IF rq[i].resp.body.val.message # Undefined
                    THEN <<rq[i].resp.body.val.message>> ELSE <<rq[i].resp.statusText>>)
         ELSE /\ rq[i].out.err.code = Undefined
              /\ rq[i].out.err.message = <<rq[i].resp.statusText>>

\* A 500 with a structured error body, and a 404 whose body is no JSON.
C17_Witness ==
  /\ SettledCalls = {1, 2}
  /\ rq[1].out = Thrown(APIError(<<"boom">>, 500, "E_INTERNAL"))
  /\ rq[2].resp = FetchResponse(404, "Not Found", MalformedBody)
  /\ rq[2].body = "read"
  /\ rq[2].out = Thrown(APIError(<<"Not Found">>, 404, Undefined))

\* The four failure kinds of a call.
NetworkFailed(i) == rq[i].resp.net = "error" \/ (rq[i].body = "broken" /\ ~GotNon2xx(i))

Aborted(i) == rq[i].timer = "fired" /\ ~GotNon2xx(i)

MalformedOn2xx(i) ==
  /\ rq[i].resp.net = "ok" /\ ResponseOk(rq[i].resp) /\ rq[i].resp.status # 204
  /\ rq[i].body = "read"
  /\ rq[i].resp.body.fmt = "malformed"

\* The three kinds that surface as the claim says: network failure and
\* abort as errors that are no APIError, a non-2xx status as APIError.
ThreeKindsTyped ==
  \A i \in SettledCalls :
    /\ NetworkFailed(i) => rq[i].out.threw /\ rq[i].out.err.type = "TypeError"
    /\ Aborted(i) => rq[i].out.threw /\ rq[i].out.err.type = "AbortError"
    /\ GotNon2xx(i) => rq[i].out.threw /\ rq[i].out.err.type = "APIError"

\* C18 as stated: network failure and abort surface as errors that are no
\* APIError, a non-2xx status and a malformed JSON body on a 2xx response
\* as APIError.
C18_FourKindsTyped ==
  /\ ThreeKindsTyped
  /\ \A i \in SettledCalls :
       MalformedOn2xx(i) => rq[i].out.threw /\ rq[i].out.err.type = "APIError"

\* What the code does with a malformed body on a 2xx response: the
\* SyntaxError of JSON.parse reaches the caller.
MalformedRaisesSyntaxError ==
  \A i \in SettledCalls :
    MalformedOn2xx(i) => rq[i].out.threw /\ rq[i].out.err.type = "SyntaxError"

\* The polls of a wait(): each request after the first follows a sleep
\* that follows a status other than `complete` and `failed`, and nothing
\* follows an error.
PollsOnlyAfterNonTerminal(trace) ==
  \A k \in 1..Len(trace) :
    /\ (trace[k].ev = "request" /\ k > 1) =>
         /\ k > 2
         /\ trace[k - 1].ev = "sleep"
         /\ trace[k - 2].ev = "status"
         /\ trace[k - 2].arg \notin {"complete", "failed"}
    /\ trace[k].ev = "error" => k = Len(trace)

\* C19: every call of request() hands exactly one HTTP request to fetch,
\* also once it has failed (network error, abort, non-2xx, unreadable
\* body); the only repeated requests are the status polls of Job.wait,
\* each after a non-terminal status.
C19_NoAutomaticRetry ==
  /\ Len(wire) = Len(rq)
  /\ \A i \in 1..Len(rq) : wire[i] = 1
  /\ \A i \in 1..Len(member) : PollsOnlyAfterNonTerminal(member[i].trace)

\* Two calls that failed, one on the network and one with a 500, each
\* with its single request.
C19_Witness ==
  /\ SettledCalls = {1, 2}
  /\ rq[1].resp = FetchRejected("error") /\ rq[1].out.threw
  /\ rq[2].resp.status = 500 /\ rq[2].out.threw
  /\ wire = <<1, 1>>

\* ------------------------------------------------- sheets.add, page selector
\* The submit requests of a sheets.add call.
SheetSubmits == { k \in 1..Len(net) : net[k].kind = "submit" /\ net[k].api = "sheets" }

\* The selector as the caller wrote it: a number in decimal, text as it is.
AsWritten(page) == IF page.isNumber THEN DecStr(page.num) ELSE page.text

Blank(text) == \A k \in 1..Len(text) : IsSpace(text[k])

\* field is text without the white space at its two ends.
StripsTo(text, field) ==
  /\ \E i, j \in 0..Len(text) :
       /\ i + j <= Len(text)
       /\ field = SubSeq(text, i + 1, Len(text) - j)
       /\ Blank(SubSeq(text, 1, i))
       /\ Blank(SubSeq(text, Len(text) - j + 1, Len(text)))
  /\ field # <<>> => ~IsSpace(field[1]) /\ ~IsSpace(field[Len(field)])

RejectedForPage == iout.kind = "threw" /\ iout.at = "page"

\* C20 as stated: the `page` field of the submit request is the caller's
\* selector as written, and no selector is rejected locally.
C20_PageForwardedVerbatim ==
  icall.api = "sheets" =>
    /\ \A k \in SheetSubmits : net[k].page = AsWritten(icall.page)
    /\ ~RejectedForPage

\* C20: the `page` field of the submit request is the caller's selector, a
\* number in decimal and text without the white space at its ends, with
\* nothing expanded; a selector that is blank text is rejected locally
\* with `page is required` and no submit request is made.
C20_PageForwardedTrimmed ==
  icall.api = "sheets" =>
    /\ \A k \in SheetSubmits :
         /\ net[k].page # <<>>
         /\ StripsTo(AsWritten(icall.page), net[k].page)
    /\ RejectedForPage =>
         /\ ~icall.page.isNumber /\ Blank(icall.page.text)
         /\ iout.err = PlainError("page is required")
         /\ SheetSubmits = {}
    /\ (ipc = "done" /\ iout.kind = "returned") =>
         ~(~icall.page.isNumber /\ Blank(icall.page.text))

\* The selector " 1,2 " reaches the server as "1,2".
C20_Witness ==
  /\ icall.api = "sheets"
  /\ icall.page = TextPage(<<" ", "1", ",", "2", " ">>)
  /\ \E k \in SheetSubmits : net[k].page = <<"1", ",", "2">>

\* --------------------------------------------------------- resource methods
ResourceCalled == mpc # "idle"

ReportCalled == dpc # "idle" /\ dcall.op \in {"sheetSummary", "referenceResolve"}

RejectedLocally == mpc = "done" /\ mout.kind = "threw" /\ mout.at = "validate" /\ mnet = <<>>

ReportRejectedLocally == dpc = "done" /\ dout.kind = "threw" /\ dq = <<>>

\* The methods that pass their identifier through requireText.
RequireTextMethods ==
  { "docquery.nodeGet", "docquery.sheetEntities", "docquery.search", "docquery.neighbors",
    "docquery.cypher", "projects.open", "projects.delete" }

\* C21: a call of any of the resource methods with an empty or
\* whitespace-only identifier or text has ended in a locally raised error
\* and has handed no request to the network.
C21_BlankRejectedBeforeNetwork ==
  /\ (ResourceCalled /\ Blank(mcall.given)) => RejectedLocally
  /\ (ReportCalled /\ Blank(dcall.given)) => ReportRejectedLocally

\* What does hold: the methods that call requireText reject a blank value
\* before any request, and so do the two report calls.
BlankRejectedWhereRequired ==
  /\ (ResourceCalled /\ Blank(mcall.given) /\ mcall.method \in RequireTextMethods) =>
       /\ RejectedLocally
       /\ mout.err.type = "Error"
       /\ mout.err.message[2] = " is required"
  /\ (ReportCalled /\ Blank(dcall.given)) => ReportRejectedLocally

\* sheets.delete and the three drawings methods send a blank identifier.
BlankIdentifierSent ==
  /\ mcall.method \in {"sheets.delete", "drawings.get", "drawings.delete", "drawings.checkCache"}
  /\ Blank(mcall.given)
  /\ Len(mnet) = 1
  /\ mnet[1].arg = mcall.given

OpenReturned == mcall.method = "projects.open" /\ mpc = "done" /\ mout.kind = "returned"

\* C23 as stated: projects.open has returned a handle without a request;
\* the handle's id is the id as given, and its name is the name given or,
\* without one, the id.
C23_OpenGivesHandleOfGivenId ==
  (mcall.method = "projects.open" /\ mpc = "done") =>
    /\ mout.kind = "returned"
    /\ mnet = <<>>
    /\ mout.value.id = mcall.given
    /\ mout.value.name = IF mcall.name.given THEN mcall.name.text ELSE mcall.given

\* C23: projects.open hands no request to the network; with a blank id it
\* throws `project_id is required`; otherwise it returns a handle whose id
\* is the given id without the white space at its ends, and whose name is
\* the given name (an empty one included) or, without one, that id.
C23_OpenGivesHandleOfTrimmedId ==
  (mcall.method = "projects.open" /\ mpc # "idle") =>
    /\ mpc = "done"
    /\ mnet = <<>>
    /\ IF Blank(mcall.given)
       THEN /\ mout.kind = "threw"
            /\ mout.err.type = "Error"
            /\ mout.err.message = <<"project_id", " is required">>
       ELSE /\ mout.kind = "returned"
            /\ StripsTo(mcall.given, mout.value.id)
            /\ mout.value.name = IF mcall.name.given THEN mcall.name.text ELSE mout.value.id

C23_Witness ==
  /\ OpenReturned
  /\ mcall.given = <<" ", "u", " ", "0", " ">>
  /\ mout.value.id = <<"u", " ", "0">>
  /\ mout.value.name = <<"u", " ", "0">>
  /\ mnet = <<>>

\* ------------------------------------------------------------ the base URL
Pieces(text) == { text[k] : k \in 1..Len(text) }

Slashes(text) == Cardinality({ k \in 1..Len(text) : text[k] = "/" })

\* The configured URL has no path: nothing after the host and port but,
\* at most, one slash (and a query).
NoPath(url) == Pieces(url) \cap {"v1", "api"} = {} /\ Slashes(url) <= 1

EndsIn(url, a, b) == Len(url) >= 2 /\ url[Len(url) - 1] = a /\ url[Len(url)] = b

WithoutLastSlash(url) ==
  IF url # <<>> /\ url[Len(url)] = "/" THEN SubSeq(url, 1, Len(url) - 1) ELSE url

V1Appended(url) == WithoutLastSlash(url) \o <<"/", "v1">>

\* The URL is written the way the URL parser writes it back: host in lower
\* case, no default port, and it has no query.
WrittenCanonically(url) == Pieces(url) \cap {"H", ":80", ":443", "?q"} = {}

NotIdempotentHere ==
  /\ client.configured = <<"http://", "h", "/", "v1", "/", "/">>
  /\ client.baseUrl = <<"http://", "h", "/", "v1", "/">>
  /\ NormalizeBaseUrl(client.baseUrl) = <<"http://", "h", "/", "v1">>

\* ------------------------------------------------- Job.wait: order and timing
\* C24: a wait() that has raised its timeout error has made at least one
\* status request before, whatever the timeout.
C24_PollBeforeTimeout ==
  Waiting =>
    \A i \in 1..Len(jobs) :
      TimedOut(i) => NumberOf(member[i].trace, "request") >= 1

\* What does hold: with a timeout above zero the first thing wait() does is
\* a status request; with a timeout of zero it raises the timeout error at
\* once, without one.
PollFirstUnlessZeroTimeout ==
  jmode = "wait" =>
    IF opts.timeoutMs > 0
    THEN Len(member[1].trace) >= 1 /\ member[1].trace[1] = Event("request", "")
    ELSE TimedOut(1) /\ member[1].trace = <<>>

\* The timeout error raised although no status was ever asked for.
TimedOutUnpolled == jmode = "wait" /\ TimedOut(1) /\ member[1].trace = <<>>

Terminal == {"complete", "failed"}

\* C25: in a wait(), every status request but the first comes right after
\* one sleep that came right after a status; a status other than `complete`
\* or `failed` is followed at once by a sleep, whose timer is set to
\* pollIntervalMs (1 ms at least) from now; and a sleep is followed by the
\* next status request or by the timeout error, nothing else.
C25_FixedIntervalPolling ==
  jmode = "wait" =>
    LET tr == member[1].trace
    IN /\ \A k \in 1..Len(tr) :
            /\ (tr[k].ev = "request" /\ k > 1) =>
                 /\ k >= 4
                 /\ tr[k - 1].ev = "sleep"
                 /\ tr[k - 2].ev = "status"
                 /\ tr[k - 3].ev = "request"
            /\ (tr[k].ev = "status" /\ tr[k].arg \notin Terminal) =>
                 k < Len(tr) /\ tr[k + 1].ev = "sleep"
            /\ tr[k].ev = "sleep" =>
                 /\ k > 1 /\ tr[k - 1].ev = "status" /\ tr[k - 1].arg \notin Terminal
                 /\ IF k < Len(tr) THEN tr[k + 1].ev = "request"
                    ELSE member[1].pc = "sleeping" \/ TimedOut(1)
       /\ member[1].pc = "sleeping" =>
            member[1].due = now + Max(opts.pollIntervalMs, 1)

C25_Witness ==
  /\ jmode = "wait"
  /\ opts.pollIntervalMs = 1
  /\ NumberOf(member[1].trace, "request") = 3
  /\ NumberOf(member[1].trace, "sleep") = 2
  /\ member[1].trace[2] = Event("status", "paused")
  /\ member[1].trace[5] = Event("status", "queued")

\* C27: a status poll of a wait() that reports `complete` is the last thing
\* the wait() does: it has returned, with an empty result record when the
\* response carried no result, and has not gone on to poll or to time out.
C27_CompleteWithoutResultReturnsEmpty ==
  Waiting =>
    \A i \in 1..Len(jobs) :
      \A k \in 1..Len(member[i].trace) :
        member[i].trace[k] = Event("status", "complete") =>
          /\ k = Len(member[i].trace)
          /\ member[i].pc = "resolved"
          /\ ~TimedOut(i)
          /\ ~member[i].status.hasResult => member[i].value = EmptyResult

C27_Witness ==
  /\ jmode = "wait"
  /\ member[1].pc = "resolved"
  /\ member[1].trace = <<Event("request", ""), Event("status", "running"), Event("sleep", ""),
                         Event("request", ""), Event("status", "complete")>>
  /\ ~member[1].status.hasResult
  /\ member[1].value = EmptyResult

\* C28: in a wait(), a status `complete` has been returned and a status
\* `failed` raised as the job's failure however late it came; the timeout
\* error is raised at the top of the loop only, after a sleep or before the
\* first poll, and never when the last status seen is `complete` or
\* `failed`; and the call ends less than one status request plus one poll
\* interval (as its timer ran) after timeoutMs.
C28_DeadlineOnlyAtLoopTop ==
  jmode = "wait" =>
    LET m == member[1]
    IN /\ \A k \in 1..Len(m.trace) :
            /\ m.trace[k] = Event("status", "complete") => m.pc = "resolved"
            /\ m.trace[k] = Event("status", "failed") =>
                 m.pc = "rejected" /\ m.err = JobFailedError(jobs[1], m.status.error)
       /\ TimedOut(1) =>
            /\ m.status.status \notin Terminal
            /\ m.trace # <<>> => m.trace[Len(m.trace)].ev = "sleep"
       /\ Settled(m) =>
            m.endedAt - m.start <
              opts.timeoutMs + MaxReqMs + Max(opts.pollIntervalMs, 1) + MaxLateMs

\* A `complete` that came in when timeoutMs had elapsed, after an earlier
\* poll, and was returned.
C28_Witness ==
  /\ jmode = "wait"
  /\ opts.timeoutMs > 0
  /\ member[1].pc = "resolved"
  /\ member[1].endedAt - member[1].start >= opts.timeoutMs
  /\ NumberOf(member[1].trace, "request") >= 2

\* A wait() that ended in the timeout error later than timeoutMs.
TimedOutLate ==
  /\ jmode = "wait"
  /\ TimedOut(1)
  /\ member[1].endedAt - member[1].start > opts.timeoutMs

\* -------------------------------------- docquery.sheetSummary: five queries
\* A state of the server's graph as the sheet-node query and the
\* reachability query see it: the Sheet nodes of the sheet id, the other
\* entities of it, and those of them the sheet is reachable from.
GraphStates ==
  { g \in [sheetNodes : 0..MaxCount, others : 0..MaxCount, reachable : 0..MaxCount] :
      g.reachable <= g.others /\ (g.sheetNodes = 0 => g.reachable = 0) }

\* The rows the two queries give when run on the graph state g: the
\* sheet-node query one row if there is a Sheet node; the reachability
\* query no row if the sheet id has no entity at all, else its counts.
SheetNodeRowsFit(g, rows) == Len(rows) = (IF g.sheetNodes > 0 THEN 1 ELSE 0)

ReachabilityRowsFit(g, rows) ==
  IF g.sheetNodes = 0 /\ g.others = 0 THEN rows = <<>>
  ELSE rows = <<ReachabilityRow(JBool(g.sheetNodes > 0), JNum(g.sheetNodes),
                                JNum(g.others), JNum(g.reachable))>>

\* The answers to the two queries are those of one graph state.
FromOneGraphState ==
  \E g \in GraphStates :
    SheetNodeRowsFit(g, RowsOf(dq, 1)) /\ ReachabilityRowsFit(g, RowsOf(dq, 4))

\* The report shows a sheet node exactly when it says there is one.
SheetNodeAgrees ==
  /\ dout.report.sheet_node.obj <=> dout.report.reachability.has_sheet_node
  /\ dout.report.sheet_node.obj <=> ~HasWarning(dout.report.warnings, "missing_sheet_node")

\* C26: sheetSummary has at most one query in flight, each issued once the
\* one before is answered, in the order sheet node, labels, relationships,
\* reachability, orphans; each part of the report is what its own query
\* answered; so the report agrees with itself when the answers come from
\* one graph state, and nothing makes them come from one.
C26_QueriesOneAfterAnother ==
  dcall.op = "sheetSummary" =>
    /\ Len(dq) <= Len(SummaryQueries)
    /\ \A k \in 1..Len(dq) :
         /\ dq[k].query = SummaryQueries[k]
         /\ k < Len(dq) => dq[k].answer # FetchPending
    /\ SummaryReturned =>
         /\ Len(dq) = Len(SummaryQueries)
         /\ dout.report.sheet_node = (IF RowsOf(dq, 1) = <<>> THEN NonObject ELSE RowsOf(dq, 1)[1])
         /\ FromOneGraphState => SheetNodeAgrees

\* A report no graph state gives: the sheet node found by the first query
\* together with has_sheet_node = false and the missing_sheet_node warning
\* from the fourth.
C26_Witness ==
  /\ SummaryReturned
  /\ ~FromOneGraphState
  /\ dout.report.sheet_node.obj
  /\ ~dout.report.reachability.has_sheet_node
  /\ HasWarning(dout.report.warnings, "missing_sheet_node")
  /\ ReachabilityAnswer = <<ReachabilityRow(JBool(FALSE), JNum(0), JNum(2), JNum(0))>>

\* ------------------------------------------------- the transport's timers
\* Each call has its one timer: armed while the call is under way, and
\* cleared or fired once it has settled; a call ends in an abort only if
\* its own timer fired.
OneTimerPerCall ==
  \A i \in 1..Len(rq) :
    /\ rq[i].pc # "settled" => rq[i].timer = "armed"
    /\ rq[i].pc = "settled" => rq[i].timer \in {"cleared", "fired"}
    /\ (rq[i].pc = "settled" /\ rq[i].out.threw /\ rq[i].out.err.type = "AbortError") =>
         rq[i].timer = "fired"
    /\ rq[i].timer = "fired" => (rq[i].pc = "settled" /\ rq[i].out.threw)

\* The step in which the timer of call i fires leaves every other call as
\* it is.
FiringTouchesOwnCallOnly ==
  \A i \in 1..Len(rq) :
    (rq[i].timer = "armed" /\ rq'[i].timer = "fired") =>
      /\ Len(rq') = Len(rq)
      /\ \A j \in 1..Len(rq) : j # i => rq'[j] = rq[j]

\* C29: every request() call arms one timer and clears it on every way out,
\* so that no timer is pending once the calls have settled, and a timer
\* that fires aborts its own call and no other.
C29_TimerScopedPerCall == []OneTimerPerCall /\ [][FiringTouchesOwnCallOnly]_vars

\* Two calls side by side: the timer of the first fired and aborted it, the
\* second went on and returned, its timer cleared.
C29_Witness ==
  /\ Len(rq) = 2
  /\ rq[1].pc = "settled" /\ rq[1].timer = "fired" /\ rq[1].out.err.type = "AbortError"
  /\ rq[2].pc = "settled" /\ rq[2].timer = "cleared" /\ ~rq[2].out.threw
  /\ rq[2].body = "read"

\* ------------------------------------------- JobBatch.waitAll: the siblings
LastEvent(i) == member[i].trace[Len(member[i].trace)]

\* The wait() of member i has ended for a reason of its own: its job's
\* `complete` or `failed`, an error of its own status request, or its own
\* timeout.
EndedOnItsOwn(i) ==
  \/ TimedOut(i) /\ member[i].endedAt - member[i].start >= opts.timeoutMs
  \/ /\ member[i].trace # <<>>
     /\ \/ member[i].pc = "resolved" /\ LastEvent(i) = Event("status", "complete")
        \/ member[i].pc = "rejected" /\ LastEvent(i) = Event("status", "failed")
        \/ member[i].pc = "rejected" /\ LastEvent(i).ev = "error"

\* Whatever Promise.all has become, a member that has not ended is waiting
\* for its status request or its timer, and that one can settle or fire;
\* a member that has ended has ended on its own.
SiblingsRunOn ==
  jmode = "waitAll" =>
    \A i \in 1..Len(jobs) :
      /\ member[i].pc \in {"inflight", "sleeping", "resolved", "rejected"}
      /\ member[i].pc = "inflight" =>
           ENABLED StatusSettles(i, FetchResponse(200, "OK",
                     JsonBody(StatusJson("running", FALSE, jobs[i], Undefined))), 0)
      /\ member[i].pc = "sleeping" => ENABLED TimerFires(i, 0)
      /\ Settled(member[i]) => EndedOnItsOwn(i)

\* Once waitAll has failed, nothing a member does changes what it failed
\* with.
FailureIsFinal == (jmode = "waitAll" /\ pall.state = "rejected") => pall' = pall

\* C30: after waitAll has failed, every other member's wait() goes on
\* polling until its own job is complete or failed, its own request fails
\* or its own timeout has elapsed, and what it ends with does not reach the
\* caller.
C30_FailureDoesNotCancelSiblings == []SiblingsRunOn /\ [][FailureIsFinal]_vars

\* waitAll failed with the second job at time 0; the first job's wait()
\* polled again later and ended with its result, which waitAll does not
\* hold.
C30_Witness ==
  /\ jmode = "waitAll"
  /\ Len(jobs) = 2
  /\ pall.state = "rejected"
  /\ pall.from = 2
  /\ member[1].pc = "resolved"
  /\ member[1].value = SheetResult(jobs[1])
  /\ member[1].endedAt > member[2].endedAt
  /\ NumberOf(member[1].trace, "request") >= 2
  /\ pall.values[1] = NoValue

====
